---------------------------- MODULE Spec2Model ----------------------------
(***************************************************************************)
(* Coltrane (python port): stage mapper, prey saturation, strategy grid,   *)
(* strategy projector, cohort integrator and population driver.            *)
(*                                                                         *)
(* Numbers.  The program computes in IEEE doubles.  Here a number is a     *)
(* pair <<n, d>>: an exact rational n/d in lowest terms with d > 0, or one *)
(* of the three special doubles  NaN = <<0,0>>, +inf = <<1,0>> and         *)
(* -inf = <<-1,0>>.  Arithmetic on the pairs is exact and follows the      *)
(* IEEE rules for the special values (inf - inf = NaN, 0 * inf = NaN,      *)
(* x / 0 = +-inf, every comparison with NaN is false).  Rounding of        *)
(* doubles is not modelled.  Inputs are drawn from values on which the     *)
(* program's powers are rational (an integer exponent or a base of 1).     *)
(***************************************************************************)
EXTENDS Integers, Sequences, FiniteSets, TLC

VARIABLES
    pc,        \* position of the running call
    mapper,    \* stage mapper call: arguments and results
    forcing,   \* forcing dict (v0 of prey_saturation)
    p,         \* parameter dict
    v,         \* dict returned by prey_saturation
    t0,        \* spawning dates
    s,         \* strategy dict of timing_combinations
    ind,       \* strategy index handed to add_strategy_to_params
    pii,       \* parameter dict with one strategy
    ci,        \* locals of coltrane_integrate
    cp         \* locals of coltrane_population

vars == <<pc, mapper, forcing, p, v, t0, s, ind, pii, ci, cp>>

\* value of a variable the running call does not use
Unset == <<>>

---------------------------------------------------------------------------
(* Numbers *)

NaN == <<0, 0>>
PInf == <<1, 0>>
NInf == <<-1, 0>>

Abs(n) == IF n < 0 THEN -n ELSE n

RECURSIVE Gcd(_, _)
Gcd(a, b) == IF b = 0 THEN a ELSE Gcd(b, a % b)

\* n/d in lowest terms, d # 0
Frac(n, d) ==
    LET g == Gcd(Abs(n), Abs(d))
        sg == IF d < 0 THEN -1 ELSE 1
    IN  <<(sg * n) \div g, (sg * d) \div g>>

R(n) == <<n, 1>>
Zero == <<0, 1>>
One == <<1, 1>>

IsNaN(x) == x[1] = 0 /\ x[2] = 0
IsFinite(x) == x[2] > 0
IsInf(x) == x[2] = 0 /\ x[1] # 0
Sgn(x) == IF x[1] > 0 THEN 1 ELSE IF x[1] < 0 THEN -1 ELSE 0

RNeg(x) == <<-x[1], x[2]>>

RAdd(x, y) ==
    IF IsNaN(x) \/ IsNaN(y) THEN NaN
    ELSE IF IsInf(x) /\ IsInf(y) THEN (IF x = y THEN x ELSE NaN)
    ELSE IF IsInf(x) THEN x
    ELSE IF IsInf(y) THEN y
    ELSE LET g == Gcd(x[2], y[2])
         IN  Frac(x[1] * (y[2] \div g) + y[1] * (x[2] \div g), (x[2] \div g) * y[2])

RSub(x, y) == RAdd(x, RNeg(y))

RMul(x, y) ==
    IF IsNaN(x) \/ IsNaN(y) THEN NaN
    ELSE IF IsInf(x) \/ IsInf(y)
         THEN (IF Sgn(x) * Sgn(y) = 0 THEN NaN ELSE <<Sgn(x) * Sgn(y), 0>>)
    ELSE LET g1 == Gcd(Abs(x[1]), y[2])
             g2 == Gcd(Abs(y[1]), x[2])
         IN  <<(x[1] \div g1) * (y[1] \div g2), (x[2] \div g2) * (y[2] \div g1)>>

RDiv(x, y) ==
    IF IsNaN(x) \/ IsNaN(y) THEN NaN
    ELSE IF IsInf(y) THEN (IF IsInf(x) THEN NaN ELSE Zero)
    ELSE IF y[1] = 0 THEN (IF Sgn(x) = 0 THEN NaN ELSE <<Sgn(x), 0>>)
    ELSE RMul(x, <<Sgn(y) * y[2], Abs(y[1])>>)

RLt(x, y) ==
    /\ ~IsNaN(x)
    /\ ~IsNaN(y)
    /\ IF IsInf(x) /\ IsInf(y) THEN x[1] < y[1]
       ELSE IF IsInf(x) THEN x[1] < 0
       ELSE IF IsInf(y) THEN y[1] > 0
       ELSE LET g == Gcd(x[2], y[2])
            IN  x[1] * (y[2] \div g) < y[1] * (x[2] \div g)

REq(x, y) == ~IsNaN(x) /\ ~IsNaN(y) /\ x = y
RLe(x, y) == RLt(x, y) \/ REq(x, y)
RGt(x, y) == RLt(y, x)
RGe(x, y) == RLe(y, x)

\* np.maximum, np.minimum: NaN if either argument is NaN
RMax(x, y) == IF IsNaN(x) \/ IsNaN(y) THEN NaN ELSE IF RLt(x, y) THEN y ELSE x
RMin(x, y) == IF IsNaN(x) \/ IsNaN(y) THEN NaN ELSE IF RLt(y, x) THEN y ELSE x

\* np.nan_to_num(x, nan=z); the largest finite double stands as the infinity
NanToNum(x, z) == IF IsNaN(x) THEN z ELSE x

\* a boolean used as a number
BoolR(b) == IF b THEN One ELSE Zero

\* x ** k for an integer k
RECURSIVE RPowInt(_, _)
RPowInt(x, k) ==
    IF k = 0 THEN One
    ELSE IF k < 0 THEN RDiv(One, RPowInt(x, -k))
    ELSE RMul(x, RPowInt(x, k - 1))

\* x ** e for a rational e, where the result is rational
RPow(x, e) ==
    IF IsNaN(x) \/ IsNaN(e) THEN NaN
    ELSE IF x = One THEN One
    ELSE IF e[2] = 1 THEN RPowInt(x, e[1])
    ELSE CHOOSE r \in {} : TRUE

\* x % m for a positive integer m (python: the result has the sign of m)
RMod(x, m) ==
    IF ~IsFinite(x) THEN NaN
    ELSE LET q == x[1] \div (x[2] * m)
         IN  RSub(x, R(q * m))

\* sums over sequences of numbers
RECURSIVE RSum(_)
RSum(xs) == IF xs = <<>> THEN Zero ELSE RAdd(Head(xs), RSum(Tail(xs)))

\* dict insert  d[k] = x
Put(d, k, x) == (k :> x) @@ d

---------------------------------------------------------------------------
(* Stage mapper: stage_to_D.py, D_to_stage.py *)

Bele_a == <<0, 595, 983, 1564, 2951, 3710, 4426, 5267, 6233, 7370, 8798, 10964, 15047>>

stages == <<"E", "N1", "N2", "N3", "N4", "N5", "N6", "C1", "C2", "C3", "C4", "C5">>

\* str.upper() on the names the callers pass
upper(name) ==
    CASE name = "e" -> "E"
      [] name = "n1" -> "N1" [] name = "n2" -> "N2" [] name = "n3" -> "N3"
      [] name = "n4" -> "N4" [] name = "n5" -> "N5" [] name = "n6" -> "N6"
      [] name = "c1" -> "C1" [] name = "c2" -> "C2" [] name = "c3" -> "C3"
      [] name = "c4" -> "C4" [] name = "c5" -> "C5" [] name = "c6" -> "C6"
      [] OTHER -> name

\* list.index, 0-based
index(list, x) == (CHOOSE k \in 1..Len(list) : list[k] = x /\ \A j \in 1..(k - 1) : list[j] # x) - 1

\* a plausible slip: the end of the stage instead of its middle
stage_to_D_end(stage) ==
    IF upper(stage) = "C6" THEN One
    ELSE LET n == index(stages, upper(stage))
         IN  RDiv(R(Bele_a[n + 2]), R(Bele_a[Len(Bele_a)]))

stage_to_D(stage) ==
    IF upper(stage) = "C6" THEN One
    ELSE LET n == index(stages, upper(stage))
         IN  RDiv(RMul(Frac(1, 2), R(Bele_a[n + 2] + Bele_a[n + 1])), R(Bele_a[Len(Bele_a)]))

\* Age of entry into each stage
Dstage == [k \in 1..Len(Bele_a) |-> RDiv(R(Bele_a[k]), R(Bele_a[Len(Bele_a)]))]

\* the loop  for i in range(1, len(Dstage)): stage[(D >= Dstage[i-1]) & (D < Dstage[i])] = i
RECURSIVE D_to_stage_loop(_, _, _)
D_to_stage_loop(D, stage, k) ==
    IF k > Len(Dstage) - 1 THEN stage
    ELSE D_to_stage_loop(D,
                         IF RGe(D, Dstage[k]) /\ RLt(D, Dstage[k + 1]) THEN R(k) ELSE stage,
                         k + 1)

\* a plausible slip: the last line, stage[D >= 1] = len(Dstage), left out
D_to_stage_open(D) == D_to_stage_loop(D, NaN, 1)

D_to_stage(D) ==
    LET stage == D_to_stage_loop(D, NaN, 1)
    IN  IF RGe(D, One) THEN R(Len(Dstage)) ELSE stage

\* Inputs of the stage mapper
StageNames == {stages[k] : k \in 1..Len(stages)} \cup {"C6"}
LowerNames == {"e", "n1", "n2", "n3", "n4", "n5", "n6", "c1", "c2", "c3", "c4", "c5", "c6"}

\* D values tried: within GridHalfWidth/30094 of every stage boundary, every
\* stage midpoint, and values above 1
GridHalfWidth == 1
DGrid ==
    {Frac(2 * Bele_a[k] + e, 2 * Bele_a[Len(Bele_a)]) :
        k \in 1..Len(Bele_a), e \in (-GridHalfWidth)..GridHalfWidth}
    \cup {Frac(Bele_a[k] + Bele_a[k + 1], 2 * Bele_a[Len(Bele_a)]) : k \in 1..(Len(Bele_a) - 1)}
    \cup {Frac(3, 2), R(2)}

InitStage ==
    /\ \/ /\ pc = "stage_to_D"
          /\ \E name \in StageNames \cup LowerNames :
                mapper = [stage |-> name, D |-> <<>>, out |-> <<>>]
       \/ /\ pc = "D_to_stage"
          /\ \E d1 \in DGrid, d2 \in DGrid :
                mapper = [stage |-> "", D |-> <<d1, d2>>, out |-> <<>>]
    /\ forcing = Unset /\ p = Unset /\ v = Unset /\ t0 = Unset /\ s = Unset
    /\ ind = Unset /\ pii = Unset /\ ci = Unset /\ cp = Unset

CallStageToD ==
    /\ pc = "stage_to_D"
    /\ mapper' = [mapper EXCEPT !.D = <<stage_to_D(mapper.stage)>>]
    /\ pc' = "D_to_stage"
    /\ UNCHANGED <<forcing, p, v, t0, s, ind, pii, ci, cp>>

CallDToStage ==
    /\ pc = "D_to_stage"
    /\ mapper' = [mapper EXCEPT !.out = [k \in 1..Len(mapper.D) |-> D_to_stage(mapper.D[k])]]
    /\ pc' = "done"
    /\ UNCHANGED <<forcing, p, v, t0, s, ind, pii, ci, cp>>

NextStage == CallStageToD \/ CallDToStage

SpecStage == InitStage /\ [][NextStage]_vars


\* C8: for each of the 13 stage names s (E, N1..N6, C1..C6, numbered 1..13),
\* D_to_stage(stage_to_D(s)) is the number of s.
AllStages == <<"E", "N1", "N2", "N3", "N4", "N5", "N6", "C1", "C2", "C3", "C4", "C5", "C6">>
C8_RoundTrip ==
    (pc = "done" /\ mapper.stage # "") =>
        mapper.out = <<R(index(AllStages, upper(mapper.stage)) + 1)>>

\* C8 witness: the round trip was made for C5 and gave 12
C8_Witness == pc = "done" /\ mapper.stage = "C5" /\ mapper.out = <<R(12)>>

\* C9: D_to_stage is non-decreasing over [0,1], gives 1 at D = 0, 13 for every
\* D >= 1, stage i on [threshold[i-1], threshold[i]), hence a stage in 1..13
\* for every D in [0,1].
C9_StageOfD ==
    (pc = "done" /\ mapper.stage = "") =>
        /\ \A k \in 1..Len(mapper.D) :
             LET D == mapper.D[k]
                 st == mapper.out[k]
             IN  /\ (RGe(D, Zero) /\ RLe(D, One)) => \E n \in 1..13 : st = R(n)
                 /\ D = Zero => st = R(1)
                 /\ RGe(D, One) => st = R(13)
                 /\ \A n \in 1..12 :
                      (RGe(D, Frac(Bele_a[n], 15047)) /\ RLt(D, Frac(Bele_a[n + 1], 15047)))
                          => st = R(n)
        /\ \A j, k \in 1..Len(mapper.D) :
             (RGe(mapper.D[j], Zero) /\ RLe(mapper.D[j], mapper.D[k]) /\ RLe(mapper.D[k], One))
                 => RLe(mapper.out[j], mapper.out[k])

\* C9 witness: two values inside (0,1) in different stages, and a value above 1
C9_Witness ==
    /\ pc = "done" /\ mapper.stage = ""
    /\ RLt(Zero, mapper.D[1]) /\ RLt(mapper.D[1], One) /\ RGt(mapper.D[2], One)
    /\ mapper.out = <<R(5), R(13)>>

---------------------------------------------------------------------------
(* Arrays *)

\* Arrays are sequences of numbers (1-D) or sequences of rows (2-D, [time][cohort]).
\* The arrays of a forcing dict are 1-D; coltrane_integrate tiles them to 2-D
\* and adds the key t0, which is how the dimension is told here.
ndim(d) == IF "t0" \in DOMAIN d THEN 2 ELSE 1

\* np.arange(start, stop, step), step > 0
RECURSIVE arange(_, _, _)
arange(start, stop, step) ==
    IF RLt(start, stop) THEN <<start>> \o arange(RAdd(start, step), stop, step) ELSE <<>>

\* the largest element of a non-empty sequence
RECURSIVE SeqMax(_)
SeqMax(xs) == IF Len(xs) = 1 THEN xs[1] ELSE RMax(xs[1], SeqMax(Tail(xs)))

---------------------------------------------------------------------------
(* Prey saturation: prey_saturation.py *)

\* Michaelis-Menten saturation of one prey value
MichaelisMenten(P, Ks) == RDiv(P, RAdd(Ks, P))

\* a plausible slip: numerator and half-saturation exchanged
prey_saturation_swapped(v0, q) ==
    Put(v0, "sat",
        IF ndim(v0) = 1 THEN [k \in DOMAIN v0.P |-> RDiv(q.Ks, RAdd(q.Ks, v0.P[k]))]
        ELSE [k \in DOMAIN v0.P |-> [j \in DOMAIN v0.P[k] |-> RDiv(q.Ks, RAdd(q.Ks, v0.P[k][j]))]])

\* the default variant (the else branch), elementwise on the array P
prey_saturation(v0, q) ==
    Put(v0, "sat",
        IF ndim(v0) = 1 THEN [k \in DOMAIN v0.P |-> MichaelisMenten(v0.P[k], q.Ks)]
        ELSE [k \in DOMAIN v0.P |-> [j \in DOMAIN v0.P[k] |-> MichaelisMenten(v0.P[k][j], q.Ks)]])

\* Inputs: prey concentrations 0, 1/2, 1, ... and one large value
MaxPreyHalves == 6
PreyGrid == {Frac(k, 2) : k \in 0..MaxPreyHalves} \cup {R(100)}
KsSet == {Frac(1, 2), One, Frac(6, 5)}

InitSat ==
    /\ pc = "prey_saturation"
    /\ \E P1 \in PreyGrid, P2 \in PreyGrid : forcing = [P |-> <<P1, P2>>]
    /\ \E Ks \in KsSet : p = [preySatVersion |-> "default", Ks |-> Ks]
    /\ v = Unset
    /\ mapper = Unset /\ t0 = Unset /\ s = Unset
    /\ ind = Unset /\ pii = Unset /\ ci = Unset /\ cp = Unset

CallPreySaturation ==
    /\ pc = "prey_saturation"
    /\ v' = prey_saturation(forcing, p)
    /\ pc' = "done"
    /\ UNCHANGED <<mapper, forcing, p, t0, s, ind, pii, ci, cp>>

NextSat == CallPreySaturation

SpecSat == InitSat /\ [][NextSat]_vars

\* C10: default variant, P >= 0 and Ks > 0: sat lies in [0,1), is strictly
\* increasing in P, and is 0 only at P = 0.
C10_DefaultSaturation ==
    pc = "done" =>
        /\ \A k \in 1..Len(v.P) :
             /\ RGe(v.sat[k], Zero) /\ RLt(v.sat[k], One)
             /\ (v.sat[k] = Zero) <=> (v.P[k] = Zero)
        /\ \A j, k \in 1..Len(v.P) : RLt(v.P[j], v.P[k]) => RLt(v.sat[j], v.sat[k])

\* C10 witness: two different positive prey values were saturated
C10_Witness ==
    /\ pc = "done"
    /\ RLt(Zero, v.P[1]) /\ RLt(v.P[1], v.P[2])
    /\ RLt(Zero, v.sat[1]) /\ RLt(v.sat[1], v.sat[2])

---------------------------------------------------------------------------
(* Strategy grid and projector: timing_combinations.py, add_strategy_to_params.py *)

\* days in the model year
YearDays == 365

\* Forcing time axis tried: a point every ForcingStep days from day 0
ForcingStep == R(73)
TimeAxis(years) ==
    [n \in 1..(years * (YearDays \div ForcingStep[1])) |-> R((n - 1) * ForcingStep[1])]

\* A 3-D ndarray is its shape and its elements, data[a][b][c].
\* np.meshgrid(x, y, z) with numpy's default indexing='xy': the first two axes exchanged
meshgrid_xy(x, y, z) ==
    LET shape == <<Len(y), Len(x), Len(z)>>
    IN  <<[shape |-> shape,
           data |-> [b \in 1..Len(y) |-> [a \in 1..Len(x) |-> [c \in 1..Len(z) |-> x[a]]]]],
          [shape |-> shape,
           data |-> [b \in 1..Len(y) |-> [a \in 1..Len(x) |-> [c \in 1..Len(z) |-> y[b]]]]],
          [shape |-> shape,
           data |-> [b \in 1..Len(y) |-> [a \in 1..Len(x) |-> [c \in 1..Len(z) |-> z[c]]]]]>>

\* np.meshgrid(x, y, z, indexing='ij')
meshgrid(x, y, z) ==
    LET shape == <<Len(x), Len(y), Len(z)>>
    IN  <<[shape |-> shape,
           data |-> [a \in 1..Len(x) |-> [b \in 1..Len(y) |-> [c \in 1..Len(z) |-> x[a]]]]],
          [shape |-> shape,
           data |-> [a \in 1..Len(x) |-> [b \in 1..Len(y) |-> [c \in 1..Len(z) |-> y[b]]]]],
          [shape |-> shape,
           data |-> [a \in 1..Len(x) |-> [b \in 1..Len(y) |-> [c \in 1..Len(z) |-> z[c]]]]]>>

\* ndarray.flatten() (C order): the sub-arrays one after the other
RECURSIVE Concat(_)
Concat(xss) == IF xss = <<>> THEN <<>> ELSE Head(xss) \o Concat(Tail(xss))
flatten(A) == Concat([a \in DOMAIN A.data |-> Concat(A.data[a])])

\* np.prod(A.shape)
NSof(A) == A.shape[1] * A.shape[2] * A.shape[3]

\* the three sequences handed to meshgrid
tdia_exit_seq(q) ==
    IF Len(q.tdia_exit) = 0 THEN arange(Zero, Frac(YearDays, 2), q.dt_dia) ELSE q.tdia_exit

tdia_enter_seq(q) ==
    IF Len(q.tdia_enter) = 0
    THEN arange(RAdd(SeqMax(tdia_exit_seq(q)), q.dt_dia), R(YearDays), q.dt_dia)
    ELSE q.tdia_enter

dtegg_seq(f, q) ==
    IF Len(q.dtegg) = 0
    THEN LET dteggmin == RMax(RMul(RSub(q.min_genlength_years, Frac(1, 2)), R(YearDays)), q.dt_spawn)
             dteggmax == RMin(RMul(RAdd(q.max_genlength_years, Frac(1, 2)), R(YearDays)), f.t[Len(f.t)])
         IN  arange(dteggmin, RAdd(dteggmax, Frac(1, 10)), q.dt_spawn)
    ELSE q.dtegg

\* the spawning dates
t0_seq(f, q) ==
    arange(f.t[1],
           RAdd(RAdd(RSub(f.t[Len(f.t)], R(YearDays)), Frac(1, 10)), q.dt_spawn),
           q.dt_spawn)

timing_combinations(f, q) ==
    LET g == meshgrid(tdia_exit_seq(q), tdia_enter_seq(q), dtegg_seq(f, q))
    IN  [t0 |-> t0_seq(f, q),
         s |-> [tdia_exit |-> g[1], tdia_enter |-> g[2], dtegg |-> g[3]]]

\* i is the 0-based strategy number
\* a plausible slip: the index is ignored and the first strategy taken
add_strategy_to_params_first(q, ss, i) ==
    [k \in DOMAIN ss |-> flatten(ss[k])[1]] @@ q

add_strategy_to_params(q, ss, i) ==
    [k \in DOMAIN ss |-> flatten(ss[k])[i + 1]] @@ q

\* Inputs of the strategy grid
GridYears == 2
SpawnSteps == {R(146), R(200)}
ExitLists == {<<>>, <<R(74)>>, <<R(0), R(74)>>}
EnterLists == {<<>>, <<R(293)>>, <<R(220), R(293), R(366)>>}
DteggLists == {<<>>, <<R(146)>>, <<R(146), R(292)>>}

GridParams(dsp, ex, en, dg) ==
    [dt_spawn |-> dsp, tdia_exit |-> ex, tdia_enter |-> en, dt_dia |-> R(100), dtegg |-> dg,
     min_genlength_years |-> Zero, max_genlength_years |-> PInf]

InitGrid ==
    /\ pc = "timing_combinations"
    /\ \E years \in 2..GridYears : forcing = [t |-> TimeAxis(years)]
    /\ \E dsp \in SpawnSteps, ex \in ExitLists, en \in EnterLists, dg \in DteggLists :
          p = GridParams(dsp, ex, en, dg)
    /\ t0 = Unset /\ s = Unset /\ ind = Unset /\ pii = Unset
    /\ mapper = Unset /\ v = Unset /\ ci = Unset /\ cp = Unset

CallTimingCombinations ==
    /\ pc = "timing_combinations"
    /\ t0' = timing_combinations(forcing, p).t0
    /\ s' = timing_combinations(forcing, p).s
    /\ pc' = "add_strategy_to_params"
    /\ UNCHANGED <<mapper, forcing, p, v, ind, pii, ci, cp>>

CallAddStrategyToParams ==
    /\ pc = "add_strategy_to_params"
    /\ \E i \in 0..(NSof(s.tdia_exit) - 1) :
          /\ ind' = i
          /\ pii' = add_strategy_to_params(p, s, i)
    /\ pc' = "done"
    /\ UNCHANGED <<mapper, forcing, p, v, t0, s, ci, cp>>

NextGrid == CallTimingCombinations \/ CallAddStrategyToParams

SpecGrid == InitGrid /\ [][NextGrid]_vars

\* C6: timing_combinations makes exactly |exit| x |entry| x |dtegg| strategies, and
\* add_strategy_to_params(p, s, i) gives the i-th triple of the cartesian product
\* in row-major order (exit slowest, dtegg fastest), each triple at exactly one index.
C6_RowMajorProduct ==
    LET ex == tdia_exit_seq(p)
        en == tdia_enter_seq(p)
        dg == dtegg_seq(forcing, p)
        NS == Len(ex) * Len(en) * Len(dg)
        triple(q) == <<q.tdia_exit, q.tdia_enter, q.dtegg>>
        projected == [i \in 0..(NS - 1) |-> triple(add_strategy_to_params(p, s, i))]
    IN  /\ pc = "add_strategy_to_params" =>
            /\ NSof(s.tdia_exit) = NS /\ NSof(s.tdia_enter) = NS /\ NSof(s.dtegg) = NS
            /\ \A i \in 0..(NS - 1) :
                 projected[i] = <<ex[(i \div (Len(en) * Len(dg))) + 1],
                                  en[((i \div Len(dg)) % Len(en)) + 1],
                                  dg[(i % Len(dg)) + 1]>>
            /\ \A a \in 1..Len(ex), b \in 1..Len(en), c \in 1..Len(dg) :
                 Cardinality({i \in 0..(NS - 1) : projected[i] = <<ex[a], en[b], dg[c]>>}) = 1
        /\ pc = "done" =>
            triple(pii) = <<ex[(ind \div (Len(en) * Len(dg))) + 1],
                            en[((ind \div Len(dg)) % Len(en)) + 1],
                            dg[(ind % Len(dg)) + 1]>>

\* C6 witness: a grid with more than one value on each of the first two axes, projected
\* at an index where the two orders differ
C6_Witness ==
    /\ pc = "done"
    /\ s.tdia_exit.shape[1] = 2 /\ s.tdia_exit.shape[2] = 3 /\ s.tdia_exit.shape[3] = 2
    /\ ind = 7
    /\ pii.tdia_exit = R(74) /\ pii.tdia_enter = R(220) /\ pii.dtegg = R(292)

\* C7: every spawn date lies between the forcing start and (forcing end - 365 days).
C7_SpawnWithinMargin ==
    pc \in {"add_strategy_to_params", "done"} =>
        \A c \in 1..Len(t0) :
            /\ RGe(t0[c], forcing.t[1])
            /\ RLe(t0[c], RSub(forcing.t[Len(forcing.t)], R(365)))

---------------------------------------------------------------------------
(* Cohort integrator: coltrane_integrate.py, yearday.py                     *)
(* The locals of one call are a record L: the arguments p and t0, the dict  *)
(* v, the masks isalive, isfeeding, isineggprod, toolate and                *)
(* hasfailedtodiapause, the arrays dDdt, qd, qg, astar, the loop's Imax_nf, *)
(* GWdt and dW, the timestep dt and the loop counter n.  Each operator      *)
(* below is one group of statements, from the locals before it to the       *)
(* locals after it.  Arrays are indexed [time][cohort] from 1 (the          *)
(* program's [n, c] from 0).  The diagnostics that no later statement of    *)
(* the integration reads (D_winter, tD1, Wa, Ra, We, the stage means,       *)
(* capfrac, Na, the timing metrics and the forcing averages) are left out.  *)

\* yearday of one date
yearday(t) == RAdd(RMod(t, YearDays), One)

\* np.cumsum(M, axis=0) of a 2-D array of numbers
cumsum(M) == [n \in DOMAIN M |-> [c \in DOMAIN M[n] |-> RSum([k \in 1..n |-> M[k][c]])]]

\* np.cumsum(B, axis=0) of a 2-D array of booleans: the count of True so far
cumcount(B) == [n \in DOMAIN B |-> [c \in DOMAIN B[n] |-> Cardinality({k \in 1..n : B[k][c]})]]

\* np.exp where the result is rational
RExp(x) ==
    IF IsNaN(x) THEN NaN
    ELSE IF x = Zero THEN One
    ELSE IF x = NInf THEN Zero
    ELSE IF x = PInf THEN PInf
    ELSE CHOOSE r \in {} : TRUE

\* inside the diapause window of parameters q
indiapause(yday, q) == RGe(yday, q.tdia_enter) \/ RLe(yday, q.tdia_exit)

\* Prepare the outputs, timebase (lines 52-75)
ci_prepare(f, q, z) ==
    LET NC == Len(z)
        NT == Len(f.t)
        tiled == [k \in DOMAIN f |-> [n \in 1..NT |-> [c \in 1..NC |-> f[k][n]]]]
    IN  [p |-> q, t0 |-> z, NC |-> NC, NT |-> NT,
         dt |-> RSub(f.t[3], f.t[2]),
         v |-> [t0 |-> z,
                yday |-> [n \in 1..NT |-> [c \in 1..NC |-> yearday(f.t[n])]],
                F1 |-> [c \in 1..NC |-> Zero],
                level |-> [c \in 1..NC |-> Zero]] @@ tiled]

\* a plausible slip: only the spawn date itself is tested against the window
ci_activity_spawn_only(L) ==
    LET q == L.p
        a == [n \in 1..L.NT |-> [c \in 1..L.NC |-> BoolR(~indiapause(L.v.yday[n][c], q))]]
        activeSpawning(c) == ~indiapause(yearday(L.v.t0[c]), q)
        isalive == [n \in 1..L.NT |-> [c \in 1..L.NC |->
                    /\ RGe(L.v.t[n][c], L.v.t0[c])
                    /\ (q.requireActiveSpawning # 0 => activeSpawning(c))]]
    IN  Put(Put(L, "v", Put(L.v, "a", a)), "isalive", isalive)

\* Activity a(t) and the first isalive (lines 79-93)
ci_activity(L) ==
    LET q == L.p
        a == [n \in 1..L.NT |-> [c \in 1..L.NC |-> BoolR(~indiapause(L.v.yday[n][c], q))]]
        activeSpawning(c) == ~indiapause(yearday(L.v.t0[c]), q)
        activeNextSpawning(c) == ~indiapause(yearday(RAdd(L.v.t0[c], q.dtegg)), q)
        isalive == [n \in 1..L.NT |-> [c \in 1..L.NC |->
                    /\ RGe(L.v.t[n][c], L.v.t0[c])
                    /\ (q.requireActiveSpawning # 0 => activeSpawning(c) /\ activeNextSpawning(c))]]
    IN  Put(Put(L, "v", Put(L.v, "a", a)), "isalive", isalive)

\* Temperature response factors qd, qg (lines 97-103)
ci_temperature(L) ==
    LET q == L.p
        temp(n, c) == RAdd(RMul(L.v.a[n][c], L.v.T0[n][c]),
                           RMul(RSub(One, L.v.a[n][c]), L.v.Td[n][c]))
        qd == [n \in 1..L.NT |-> [c \in 1..L.NC |->
                    IF L.isalive[n][c] THEN RPow(q.Q10d, RDiv(temp(n, c), R(10))) ELSE Zero]]
        qg == [n \in 1..L.NT |-> [c \in 1..L.NC |->
                    IF L.isalive[n][c] THEN RPow(q.Q10g, RDiv(temp(n, c), R(10))) ELSE Zero]]
    IN  Put(Put(Put(L, "v", Put(L.v, "temp", [n \in 1..L.NT |-> [c \in 1..L.NC |-> temp(n, c)]])),
                "qd", qd), "qg", qg)

\* Prey saturation (lines 107-109)
ci_prey(L) == Put(L, "v", prey_saturation(L.v, L.p))

\* Development with the nonfeeding formula (lines 113-116)
ci_dev_nonfeeding(L) ==
    LET q == L.p
        dDdt == [n \in 1..L.NT |-> [c \in 1..L.NC |->
                    RMul(RMul(BoolR(L.isalive[n][c]), q.u0), L.qd[n][c])]]
        D == [n \in 1..L.NT |-> [c \in 1..L.NC |-> RMul(cumsum(dDdt)[n][c], L.dt)]]
        isfeeding == [n \in 1..L.NT |-> [c \in 1..L.NC |-> RGe(D[n][c], q.Df)]]
    IN  Put(Put(Put(L, "dDdt", dDdt), "v", Put(L.v, "D", D)), "isfeeding", isfeeding)

\* the full formula without the clipping of line 122
ci_dev_feeding_unclipped(L) ==
    LET q == L.p
        dDdt_feeding(n, c) ==
            RMul(RMul(RMul(RMul(BoolR(L.isalive[n][c]), q.u0), L.qd[n][c]),
                      L.v.a[n][c]), L.v.sat[n][c])
        dDdt == [n \in 1..L.NT |-> [c \in 1..L.NC |->
                    IF L.isfeeding[n][c] THEN dDdt_feeding(n, c) ELSE L.dDdt[n][c]]]
        D == [n \in 1..L.NT |-> [c \in 1..L.NC |-> RMul(cumsum(dDdt)[n][c], L.dt)]]
        isfeeding == [n \in 1..L.NT |-> [c \in 1..L.NC |-> RGe(D[n][c], q.Df)]]
    IN  [L EXCEPT !.dDdt = dDdt, !.v = Put(L.v, "D", D), !.isfeeding = isfeeding]

\* Development with the full formula where feeding, clipped to 1 (lines 118-123)
ci_dev_feeding(L) ==
    LET q == L.p
        dDdt_feeding(n, c) ==
            RMul(RMul(RMul(RMul(BoolR(L.isalive[n][c]), q.u0), L.qd[n][c]),
                      L.v.a[n][c]), L.v.sat[n][c])
        dDdt == [n \in 1..L.NT |-> [c \in 1..L.NC |->
                    IF L.isfeeding[n][c] THEN dDdt_feeding(n, c) ELSE L.dDdt[n][c]]]
        clip(x) == IF RGt(x, One) THEN One ELSE x
        D == [n \in 1..L.NT |-> [c \in 1..L.NC |-> clip(RMul(cumsum(dDdt)[n][c], L.dt))]]
        isfeeding == [n \in 1..L.NT |-> [c \in 1..L.NC |-> RGe(D[n][c], q.Df)]]
    IN  [L EXCEPT !.dDdt = dDdt, !.v = Put(L.v, "D", D), !.isfeeding = isfeeding]

\* np.any((D < 1) & isineggprod, axis=0) for cohort c (line 134)
toolate(D, isineggprod, c) == \E n \in DOMAIN D : RLt(D[n][c], One) /\ isineggprod[n][c]

\* Egg production phase and the check of D against dtegg (lines 131-135)
ci_eggtiming(L) ==
    LET q == L.p
        isineggprod == [n \in 1..L.NT |-> [c \in 1..L.NC |->
                    RGe(L.v.t[n][c], RAdd(L.v.t0[c], q.dtegg))]]
        late == [c \in 1..L.NC |-> toolate(L.v.D, isineggprod, c)]
        D == [n \in 1..L.NT |-> [c \in 1..L.NC |-> IF late[c] THEN NaN ELSE L.v.D[n][c]]]
    IN  Put(Put(Put(L, "v", Put(L.v, "D", D)), "isineggprod", isineggprod), "toolate", late)

\* a plausible slip: one failure is already enough (>= 1 for > 1 in line 154)
ci_diapause_flags_once(L) ==
    LET q == L.p
        isactive == [n \in 1..L.NT |-> [c \in 1..L.NC |->
                    L.isalive[n][c] /\ (L.v.a[n][c] = One \/ ~L.isfeeding[n][c])]]
        isfailingtodiapause == [n \in 1..L.NT |-> [c \in 1..L.NC |->
                    /\ L.isalive[n][c]
                    /\ cumcount(isactive)[n][c] >= 1
                    /\ L.v.a[n][c] = Zero
                    /\ RLt(L.v.D[n][c], q.Ddia)]]
        hasfailedtodiapause == [n \in 1..L.NT |-> [c \in 1..L.NC |->
                    cumcount(isfailingtodiapause)[n][c] >= 1]]
    IN  Put(L, "hasfailedtodiapause", hasfailedtodiapause)

\* Time points in diapause at a diapause-incapable stage (lines 151-154)
ci_diapause_flags(L) ==
    LET q == L.p
        isactive == [n \in 1..L.NT |-> [c \in 1..L.NC |->
                    L.isalive[n][c] /\ (L.v.a[n][c] = One \/ ~L.isfeeding[n][c])]]
        isfailingtodiapause == [n \in 1..L.NT |-> [c \in 1..L.NC |->
                    /\ L.isalive[n][c]
                    /\ cumcount(isactive)[n][c] >= 1
                    /\ L.v.a[n][c] = Zero
                    /\ RLt(L.v.D[n][c], q.Ddia)]]
        hasfailedtodiapause == [n \in 1..L.NT |-> [c \in 1..L.NC |->
                    cumcount(isfailingtodiapause)[n][c] > 1]]
    IN  Put(L, "hasfailedtodiapause", hasfailedtodiapause)

\* Failure to diapause marks the cohort dead; level 1 (lines 155-160)
ci_diapause(L) ==
    LET D == [n \in 1..L.NT |-> [c \in 1..L.NC |->
                    IF L.hasfailedtodiapause[n][c] THEN NaN ELSE L.v.D[n][c]]]
        level == [c \in 1..L.NC |->
                    IF ~(\E n \in 1..L.NT : L.hasfailedtodiapause[n][c]) THEN R(1) ELSE L.v.level[c]]
        isalive == [n \in 1..L.NT |-> [c \in 1..L.NC |-> L.isalive[n][c] /\ ~IsNaN(D[n][c])]]
        isfeeding == [n \in 1..L.NT |-> [c \in 1..L.NC |-> L.isfeeding[n][c] /\ isalive[n][c]]]
        isineggprod == [n \in 1..L.NT |-> [c \in 1..L.NC |-> L.isineggprod[n][c] /\ isalive[n][c]]]
    IN  [L EXCEPT !.v = Put(Put(L.v, "D", D), "level", level),
                  !.isalive = isalive, !.isfeeding = isfeeding, !.isineggprod = isineggprod]

\* level 2 = reaches adulthood (line 167)
ci_adulthood(L) ==
    LET level == [c \in 1..L.NC |->
                    IF \E n \in 1..L.NT : REq(L.v.D[n][c], One) THEN R(2) ELSE L.v.level[c]]
    IN  [L EXCEPT !.v = Put(L.v, "level", level)]

\* Theoretical adult and egg size, initial state variables (lines 173-186)
ci_energy_init(L) ==
    LET q == L.p
        T_nominal(c) == RDiv(RSum([n \in 1..L.NT |-> L.v.temp[n][c]]), R(L.NT))
        qoverq(c) == RPow(RDiv(q.Q10g, q.Q10d), RDiv(T_nominal(c), R(10)))
        co(c) == RMul(RMul(RMul(RSub(One, q.theta), q.GGE_nominal), RSub(One, q.Df)), qoverq(c))
        Wa_theo == [c \in 1..L.NC |->
                    RPow(RDiv(RMul(co(c), q.I0), q.u0), RDiv(One, RSub(One, q.theta)))]
        We_theo == [c \in 1..L.NC |-> RMul(q.r_ea, RPow(Wa_theo[c], q.exp_ea))]
        zeros == [n \in 1..L.NT |-> [c \in 1..L.NC |-> Zero]]
        astar == [n \in 1..L.NT |-> [c \in 1..L.NC |->
                    RAdd(q.rb, RMul(RSub(One, q.rb), L.v.a[n][c]))]]
        v1 == [Wa_theo |-> Wa_theo, We_theo |-> We_theo, G |-> zeros,
               W |-> [n \in 1..L.NT |-> We_theo], R |-> zeros, Einc |-> zeros, E |-> zeros] @@ L.v
    IN  Put(Put(Put(L, "v", v1), "astar", astar), "n", 0)

\* Net gain of the loop's pass n = L.n (lines 190-198).  Imax_nf is kept for
\* every cohort and read only where the cohort is feeding.
ci_net_gain(L) ==
    LET q == L.p
        n == L.n
        Imax_nf == [c \in 1..L.NC |->
                    RMul(RMul(L.qg[n + 1][c], q.I0), RPow(L.v.W[n + 1][c], RSub(q.theta, One)))]
        I_nf(c) == RMul(RMul(RMul(L.v.a[n + 1][c], q.r_assim), L.v.sat[n + 1][c]), Imax_nf[c])
        M_nf(c) == RMul(RMul(q.rm, L.astar[n + 1][c]), Imax_nf[c])
        G == [c \in 1..L.NC |->
                    IF L.isfeeding[n + 1][c] THEN RSub(I_nf(c), M_nf(c)) ELSE L.v.G[n + 1][c]]
        GWdt == [c \in 1..L.NC |-> RMul(RMul(G[c], L.v.W[n + 1][c]), L.dt)]
    IN  Put(Put(Put(L, "v", [L.v EXCEPT !.G[n + 1] = G]), "Imax_nf", Imax_nf), "GWdt", GWdt)

\* a plausible slip: the gain of a cohort in egg production still goes to growth
ci_alloc_growth_always(L) ==
    LET n == L.n
        dW == L.GWdt
        W == [c \in 1..L.NC |-> RMax(Zero, NanToNum(RAdd(L.v.W[n + 1][c], dW[c]), Zero))]
    IN  Put(Put(L, "v", [L.v EXCEPT !.W[n + 2] = W]), "dW", dW)

\* Allocation to growth (lines 201-203)
ci_alloc_growth(L) ==
    LET n == L.n
        dW == [c \in 1..L.NC |->
                    IF RGt(L.GWdt[c], Zero) /\ L.isineggprod[n + 1][c] THEN Zero ELSE L.GWdt[c]]
        W == [c \in 1..L.NC |-> RMax(Zero, NanToNum(RAdd(L.v.W[n + 1][c], dW[c]), Zero))]
    IN  Put(Put(L, "v", [L.v EXCEPT !.W[n + 2] = W]), "dW", dW)

\* the fraction fr of the gain that goes to reserves (lines 206-208)
reserve_fraction(D, GWdt, q) ==
    IF RLt(GWdt, Zero) THEN One
    ELSE RMax(Zero, RMin(One, NanToNum(RDiv(RSub(D, q.Ds), RSub(One, q.Ds)), One)))

\* Allocation to reserves and the reserve cap (lines 206-213)
ci_alloc_reserves(L) ==
    LET q == L.p
        n == L.n
        fr(c) == reserve_fraction(L.v.D[n + 1][c], L.GWdt[c], q)
        R1(c) == RAdd(L.v.R[n + 1][c], RMul(fr(c), L.dW[c]))
        excess(c) == RMax(Zero, NanToNum(RSub(R1(c), RMul(q.maxReserveFrac, L.v.W[n + 2][c])), Zero))
    IN  Put(L, "v", [L.v EXCEPT !.W[n + 2] = [c \in 1..L.NC |-> RSub(L.v.W[n + 2][c], excess(c))],
                                !.R[n + 2] = [c \in 1..L.NC |-> RSub(R1(c), excess(c))]])

\* a plausible slip: the gain counts as income eggs in either phase
ci_income_eggs_always(L) ==
    LET n == L.n
        Einc == [c \in 1..L.NC |-> RDiv(RMax(Zero, NanToNum(L.GWdt[c], Zero)), L.dt)]
    IN  Put(L, "v", [L.v EXCEPT !.Einc[n + 1] = Einc])

\* Income egg production (line 216)
ci_income_eggs(L) ==
    LET n == L.n
        Einc == [c \in 1..L.NC |->
                    RMul(RDiv(RMax(Zero, NanToNum(L.GWdt[c], Zero)), L.dt),
                         BoolR(L.isineggprod[n + 1][c]))]
    IN  Put(L, "v", [L.v EXCEPT !.Einc[n + 1] = Einc])

\* Capital egg production, and the end of the pass (lines 219-225)
ci_capital_eggs(L) ==
    LET q == L.p
        n == L.n
        Emax(c) == IF L.isfeeding[n + 1][c]
                   THEN RMul(RMul(RMul(q.r_assim, L.Imax_nf[c]), BoolR(L.isineggprod[n + 1][c])),
                             L.v.W[n + 1][c])
                   ELSE Zero
        Ecap(c) == RMax(Zero, NanToNum(RSub(Emax(c), L.v.Einc[n + 1][c]), Zero))
        dR(c) == RMin(RMax(Zero, NanToNum(L.v.R[n + 2][c], Zero)), RMul(Ecap(c), L.dt))
        v1 == [L.v EXCEPT !.E[n + 1] = [c \in 1..L.NC |-> RAdd(L.v.Einc[n + 1][c], RDiv(dR(c), L.dt))],
                          !.W[n + 2] = [c \in 1..L.NC |-> RSub(L.v.W[n + 2][c], dR(c))],
                          !.R[n + 2] = [c \in 1..L.NC |-> RSub(L.v.R[n + 2][c], dR(c))]]
    IN  [L EXCEPT !.v = v1, !.n = n + 1]

\* a plausible slip: a cohort that stops starving counts as alive again
starved_now(isstarving, n, c) == isstarving[n][c]

\* np.cumsum(isstarving, axis=0) != 0 at [n, c] (line 257)
starved(isstarving, n, c) == \E k \in 1..n : isstarving[k][c]

\* Check for starvation (lines 256-261)
ci_starvation(L) ==
    LET q == L.p
        isstarving == [n \in 1..L.NT |-> [c \in 1..L.NC |->
                    RLt(L.v.R[n][c], RMul(RNeg(q.rstarv), L.v.W[n][c]))]]
        isalive == [n \in 1..L.NT |-> [c \in 1..L.NC |->
                    L.isalive[n][c] /\ ~starved(isstarving, n, c)]]
        isineggprod == [n \in 1..L.NT |-> [c \in 1..L.NC |-> L.isineggprod[n][c] /\ isalive[n][c]]]
        E == [n \in 1..L.NT |-> [c \in 1..L.NC |-> IF isalive[n][c] THEN L.v.E[n][c] ELSE Zero]]
        Einc == [n \in 1..L.NT |-> [c \in 1..L.NC |-> IF isalive[n][c] THEN L.v.Einc[n][c] ELSE Zero]]
    IN  [L EXCEPT !.v = [L.v EXCEPT !.E = E, !.Einc = Einc],
                  !.isalive = isalive, !.isineggprod = isineggprod]

\* a plausible slip: the mortality scale m0 is left out of the rate
ci_mortality_unscaled(L) ==
    LET q == L.p
        m == [n \in 1..L.NT |-> [c \in 1..L.NC |->
                    IF L.isalive[n][c]
                    THEN RMul(RMul(L.qg[n][c], L.v.a[n][c]),
                              RPow(L.v.W[n][c], RSub(q.theta, One)))
                    ELSE Zero]]
        minus == [n \in 1..L.NT |-> [c \in 1..L.NC |-> RNeg(m[n][c])]]
        lnN == [n \in 1..L.NT |-> [c \in 1..L.NC |-> RMul(cumsum(minus)[n][c], L.dt)]]
    IN  Put(L, "v", Put(Put(L.v, "m", m), "lnN", lnN))

\* Mortality and survivorship N(t) (lines 268-270)
ci_mortality(L) ==
    LET q == L.p
        m == [n \in 1..L.NT |-> [c \in 1..L.NC |->
                    IF L.isalive[n][c]
                    THEN RMul(RMul(RMul(q.m0, L.qg[n][c]), L.v.a[n][c]),
                              RPow(L.v.W[n][c], RSub(q.theta, One)))
                    ELSE Zero]]
        minus == [n \in 1..L.NT |-> [c \in 1..L.NC |-> RNeg(m[n][c])]]
        lnN == [n \in 1..L.NT |-> [c \in 1..L.NC |-> RMul(cumsum(minus)[n][c], L.dt)]]
    IN  Put(L, "v", Put(Put(L.v, "m", m), "lnN", lnN))

\* Contributions to fitness at each t (lines 278-280)
ci_fitness(L) ==
    LET raw(n, c) == RDiv(RMul(RMul(L.v.E[n][c], RExp(L.v.lnN[n][c])), L.dt), L.v.We_theo[c])
        dF1 == [n \in 1..L.NT |-> [c \in 1..L.NC |-> NanToNum(raw(n, c), Zero)]]
        F1 == [c \in 1..L.NC |-> RSum([n \in 1..L.NT |-> dF1[n][c]])]
    IN  Put(L, "v", Put(Put(L.v, "dF1", dF1), "F1", F1))

\* a plausible slip: the reserves of the dead cells are left as computed
ci_cleanup_keepR(L) ==
    LET blank(M, x) == [n \in 1..L.NT |-> [c \in 1..L.NC |-> IF L.isalive[n][c] THEN M[n][c] ELSE x]]
    IN  Put(L, "v", [L.v EXCEPT !.a = blank(L.v.a, NaN), !.D = blank(L.v.D, NaN),
                                !.W = blank(L.v.W, NaN),
                                !.lnN = blank(L.v.lnN, NInf), !.E = blank(L.v.E, Zero)])

\* Blank out nonliving portions of the time series (lines 324-329)
ci_cleanup(L) ==
    LET blank(M, x) == [n \in 1..L.NT |-> [c \in 1..L.NC |-> IF L.isalive[n][c] THEN M[n][c] ELSE x]]
    IN  Put(L, "v", [L.v EXCEPT !.a = blank(L.v.a, NaN), !.D = blank(L.v.D, NaN),
                                !.W = blank(L.v.W, NaN), !.R = blank(L.v.R, NaN),
                                !.lnN = blank(L.v.lnN, NInf), !.E = blank(L.v.E, Zero)])

\* Inputs of the integrator.  The metabolic exponent theta is 0, exp_ea is 1,
\* the two Q10 are equal, temperatures are 0 or 10 degrees and m0 is 0, so that
\* every power and exponential of the run is a rational number.
IntYears == 2
PreyLevels == {Zero, Frac(1, 4), R(3)}
SeasonalPrey(years) ==
    [n \in 1..Len(TimeAxis(years)) |->
        IF yearday(TimeAxis(years)[n]) \in {R(147), R(220)} THEN R(3) ELSE Zero]
PreySeries(years) ==
    {[n \in 1..Len(TimeAxis(years)) |-> x] : x \in PreyLevels} \cup {SeasonalPrey(years)}
SurfaceTemps == {Zero, R(10)}
DevRates == {Frac(1, 146), Frac(1, 292)}
DiapauseWindows == {<<Zero, R(366)>>, <<R(74), R(293)>>}
EggDelays == {R(73), R(146), R(292)}
ReserveCaps == {One, Frac(1, 2)}

IntForcing(years, P, T) ==
    [t |-> TimeAxis(years), P |-> P,
     T0 |-> [n \in 1..Len(TimeAxis(years)) |-> T],
     Td |-> [n \in 1..Len(TimeAxis(years)) |-> Zero]]

\* constant forcing: P = 10 and T0 = Td = 0 at every timestep
ConstantForcing(years) ==
    IntForcing(years, [n \in 1..Len(TimeAxis(years)) |-> R(10)], Zero)

IntParams(u0, win, dg, ras, mrf) ==
    [dt_spawn |-> R(146), tdia_exit |-> win[1], tdia_enter |-> win[2], dtegg |-> dg,
     preySatVersion |-> "default", Ks |-> One,
     r_ea |-> Frac(5, 18), exp_ea |-> One, theta |-> Zero, u0 |-> u0, I0 |-> Frac(1, 73),
     GGE_nominal |-> Frac(1, 2), Q10g |-> R(2), Q10d |-> R(2),
     Df |-> Frac(1, 10), Ds |-> Frac(7, 20), Ddia |-> Frac(3, 5),
     requireActiveSpawning |-> ras, maxReserveFrac |-> mrf,
     r_assim |-> Frac(1, 2), rm |-> Frac(1, 8), rb |-> Frac(1, 4), rstarv |-> Frac(1, 10),
     m0 |-> Zero]

\* One call coltrane_integrate(forcing, pii, t0)
InitInt ==
    /\ pc = "prepare"
    /\ \E u0 \in DevRates, win \in DiapauseWindows, dg \in EggDelays,
          ras \in {0, 1}, mrf \in ReserveCaps :
          p = IntParams(u0, win, dg, ras, mrf)
    /\ pii = p
    /\ \/ /\ \E P \in PreySeries(IntYears), T \in SurfaceTemps :
                forcing = IntForcing(IntYears, P, T)
          /\ t0 = t0_seq(forcing, p)
       \/ /\ forcing = ConstantForcing(IntYears)
          /\ t0 = <<Zero>>
    /\ ci = Unset /\ v = Unset
    /\ s = Unset /\ ind = Unset /\ mapper = Unset /\ cp = Unset

Prepare ==
    /\ pc = "prepare"
    /\ ci' = ci_prepare(forcing, pii, t0)
    /\ pc' = "activity"
    /\ UNCHANGED <<mapper, forcing, p, v, t0, s, ind, pii, cp>>

Activity ==
    /\ pc = "activity"
    /\ ci' = ci_activity(ci)
    /\ pc' = "temperature"
    /\ UNCHANGED <<mapper, forcing, p, v, t0, s, ind, pii, cp>>

Temperature ==
    /\ pc = "temperature"
    /\ ci' = ci_temperature(ci)
    /\ pc' = "prey"
    /\ UNCHANGED <<mapper, forcing, p, v, t0, s, ind, pii, cp>>

PreySaturation ==
    /\ pc = "prey"
    /\ ci' = ci_prey(ci)
    /\ pc' = "dev_nonfeeding"
    /\ UNCHANGED <<mapper, forcing, p, v, t0, s, ind, pii, cp>>

DevNonfeeding ==
    /\ pc = "dev_nonfeeding"
    /\ ci' = ci_dev_nonfeeding(ci)
    /\ pc' = "dev_feeding"
    /\ UNCHANGED <<mapper, forcing, p, v, t0, s, ind, pii, cp>>

DevFeeding ==
    /\ pc = "dev_feeding"
    /\ ci' = ci_dev_feeding(ci)
    /\ pc' = "eggtiming"
    /\ UNCHANGED <<mapper, forcing, p, v, t0, s, ind, pii, cp>>

EggTiming ==
    /\ pc = "eggtiming"
    /\ ci' = ci_eggtiming(ci)
    /\ pc' = "diapause_flags"
    /\ UNCHANGED <<mapper, forcing, p, v, t0, s, ind, pii, cp>>

DiapauseFlags ==
    /\ pc = "diapause_flags"
    /\ ci' = ci_diapause_flags(ci)
    /\ pc' = "diapause"
    /\ UNCHANGED <<mapper, forcing, p, v, t0, s, ind, pii, cp>>

Diapause ==
    /\ pc = "diapause"
    /\ ci' = ci_diapause(ci)
    /\ pc' = "adulthood"
    /\ UNCHANGED <<mapper, forcing, p, v, t0, s, ind, pii, cp>>

Adulthood ==
    /\ pc = "adulthood"
    /\ ci' = ci_adulthood(ci)
    /\ pc' = "energy"
    /\ UNCHANGED <<mapper, forcing, p, v, t0, s, ind, pii, cp>>

EnergyInit ==
    /\ pc = "energy"
    /\ ci' = ci_energy_init(ci)
    /\ pc' = "loop"
    /\ UNCHANGED <<mapper, forcing, p, v, t0, s, ind, pii, cp>>

NetGain ==
    /\ pc = "loop"
    /\ ci.n < ci.NT - 1
    /\ ci' = ci_net_gain(ci)
    /\ pc' = "alloc_growth"
    /\ UNCHANGED <<mapper, forcing, p, v, t0, s, ind, pii, cp>>

AllocGrowth ==
    /\ pc = "alloc_growth"
    /\ ci' = ci_alloc_growth(ci)
    /\ pc' = "alloc_reserves"
    /\ UNCHANGED <<mapper, forcing, p, v, t0, s, ind, pii, cp>>

AllocReserves ==
    /\ pc = "alloc_reserves"
    /\ ci' = ci_alloc_reserves(ci)
    /\ pc' = "income_eggs"
    /\ UNCHANGED <<mapper, forcing, p, v, t0, s, ind, pii, cp>>

IncomeEggs ==
    /\ pc = "income_eggs"
    /\ ci' = ci_income_eggs(ci)
    /\ pc' = "capital_eggs"
    /\ UNCHANGED <<mapper, forcing, p, v, t0, s, ind, pii, cp>>

CapitalEggs ==
    /\ pc = "capital_eggs"
    /\ ci' = ci_capital_eggs(ci)
    /\ pc' = "loop"
    /\ UNCHANGED <<mapper, forcing, p, v, t0, s, ind, pii, cp>>

Starvation ==
    /\ pc = "loop"
    /\ ci.n >= ci.NT - 1
    /\ ci' = ci_starvation(ci)
    /\ pc' = "mortality"
    /\ UNCHANGED <<mapper, forcing, p, v, t0, s, ind, pii, cp>>

Mortality ==
    /\ pc = "mortality"
    /\ ci' = ci_mortality(ci)
    /\ pc' = "fitness"
    /\ UNCHANGED <<mapper, forcing, p, v, t0, s, ind, pii, cp>>

Fitness ==
    /\ pc = "fitness"
    /\ ci' = ci_fitness(ci)
    /\ pc' = "cleanup"
    /\ UNCHANGED <<mapper, forcing, p, v, t0, s, ind, pii, cp>>

\* the last statements and the return, to the population driver if it made the call
Cleanup ==
    /\ pc = "cleanup"
    /\ pc' = IF cp = Unset THEN "done" ELSE "pop_store"
    /\ ci' = ci_cleanup(ci)
    /\ v' = ci'.v
    /\ UNCHANGED <<mapper, forcing, p, t0, s, ind, pii, cp>>

NextInt ==
    \/ Prepare \/ Activity \/ Temperature \/ PreySaturation \/ DevNonfeeding \/ DevFeeding
    \/ EggTiming \/ DiapauseFlags \/ Diapause \/ Adulthood \/ EnergyInit
    \/ NetGain \/ AllocGrowth \/ AllocReserves \/ IncomeEggs \/ CapitalEggs
    \/ Starvation \/ Mortality \/ Fitness \/ Cleanup

SpecInt == InitInt /\ [][NextInt]_vars

\* C1 as stated: in the result, a cell that is not alive is never followed by an
\* alive cell in the same cohort column.
C1_MonotoneDeath ==
    pc = "done" =>
        \A c \in 1..ci.NC : \A n, m \in 1..ci.NT :
            (n < m /\ ~ci.isalive[n][c]) => ~ci.isalive[m][c]

\* C1 amended: from the cohort's spawn date t0 on, a cell that is not alive is
\* never followed by an alive cell in the same cohort column (the cells before
\* t0 are not alive and are followed by alive ones).
C1_MonotoneDeathAfterSpawn ==
    pc = "done" =>
        \A c \in 1..ci.NC : \A n, m \in 1..ci.NT :
            (n < m /\ RGe(forcing.t[n], t0[c]) /\ ~ci.isalive[n][c]) => ~ci.isalive[m][c]

\* a cohort that lived for a while after its spawn date and then died
C1_Witness ==
    /\ pc = "done"
    /\ \E c \in 1..ci.NC : \E n, m \in 1..ci.NT :
          n < m /\ RGe(forcing.t[n], t0[c]) /\ ci.isalive[n][c] /\ ~ci.isalive[m][c]

\* C2: on return every cell that is not alive has a, D, W and R equal to NaN,
\* lnN equal to minus infinity and E equal to 0.
C2_DeadEncoding ==
    pc = "done" =>
        \A n \in 1..ci.NT : \A c \in 1..ci.NC :
            ~ci.isalive[n][c] =>
                /\ IsNaN(v.a[n][c]) /\ IsNaN(v.D[n][c])
                /\ IsNaN(v.W[n][c]) /\ IsNaN(v.R[n][c])
                /\ v.lnN[n][c] = NInf
                /\ v.E[n][c] = Zero

\* a run that returns both a cohort that starved after laying eggs and a cohort
\* that survives to the end
C2_Witness ==
    /\ pc = "done"
    /\ \E c \in 1..ci.NC : \E n, m \in 1..ci.NT :
          n < m /\ ci.isalive[n][c] /\ RGt(v.E[n][c], Zero) /\ ~ci.isalive[m][c]
    /\ \E c \in 1..ci.NC : ci.isalive[ci.NT][c]

\* C5 as stated: a cohort that is in its egg production phase at some timestep
\* while D < 1 has D equal to NaN at every timestep and level 0 in the result.
C5_TooLateLevelZero ==
    pc = "done" =>
        \A c \in 1..ci.NC :
            ci.toolate[c] =>
                /\ \A n \in 1..ci.NT : IsNaN(v.D[n][c])
                /\ v.level[c] = Zero

---------------------------------------------------------------------------
(* Population driver: coltrane_population.py, drop_time_series.py           *)
(* The locals of one call are the record cp: nargout, retain_time_series,   *)
(* ts_always_keep, ts_always_omit, NT, NC, NS, the list out, the loop       *)
(* counter i, the index list f, the dicts pop and popts, F1expected, and    *)
(* returns, the names of the values handed back.  pop[k] is indexed         *)
(* [cohort][strategy] and popts[k] [time][cohort][strategy], from 1.        *)

\* the fields of the integrator's result that are 1-D arrays (one value per cohort)
SummaryFields == {"t0", "F1", "level", "Wa_theo", "We_theo"}

\* out[k].ndim
field_ndim(k) == IF k \in SummaryFields THEN 1 ELSE 2

\* a plausible slip: the time series to keep are dropped with the others
drop_time_series_all(out, ts_alwaysKeep) ==
    [k \in {j \in DOMAIN out : field_ndim(j) = 1} |-> out[k]]

\* drop_time_series.py, lines 27-38
drop_time_series(out, ts_alwaysKeep) ==
    LET kept == {k \in DOMAIN out : field_ndim(k) = 1} \cup {k \in ts_alwaysKeep : k \in DOMAIN out}
    IN  [k \in kept |-> out[k]]

\* a plausible slip: the array is created like the other summary fields, full of NaN
np_full_nan(rows, cols) == [c \in 1..rows |-> [i \in 1..cols |-> NaN]]

\* np.zeros((rows, cols))
np_zeros(rows, cols) == [c \in 1..rows |-> [i \in 1..cols |-> Zero]]

\* np.nanmax of a sequence: the largest of the values that are not NaN
RECURSIVE nanmax(_)
nanmax(xs) ==
    IF Len(xs) = 1 THEN xs[1]
    ELSE LET rest == nanmax(Tail(xs))
         IN  IF IsNaN(xs[1]) THEN rest
             ELSE IF IsNaN(rest) THEN xs[1]
             ELSE IF RLt(xs[1], rest) THEN rest ELSE xs[1]

\* np.interp(x, xp, fp) for increasing xp: linear between the points, the end
\* values outside them
interp(x, xp, fp) ==
    LET N == Len(xp)
    IN  IF IsNaN(x) THEN NaN
        ELSE IF RLe(x, xp[1]) THEN fp[1]
        ELSE IF RGe(x, xp[N]) THEN fp[N]
        ELSE LET j == CHOOSE k \in 1..(N - 1) : RLe(xp[k], x) /\ RLt(x, xp[k + 1])
                 slope == RDiv(RSub(fp[j + 1], fp[j]), RSub(xp[j + 1], xp[j]))
             IN  RAdd(RMul(slope, RSub(x, xp[j])), fp[j])

\* a plausible slip: the offspring are expected to keep the first strategy
F1expected_first(F1, c) == F1[c][1]

\* np.nanmax(pop['F1'], axis=1) at cohort c (line 145)
F1expected(F1, c) == nanmax(F1[c])

\* python's None
None == <<>>

\* Set-up before the loop (lines 73-88)
cp_start(f, nargout, tc) ==
    [nargout |-> nargout,
     retain_time_series |-> nargout >= 2,
     ts_always_keep |-> {"t", "dF1"},
     ts_always_omit |-> DOMAIN f \cup {"yday"},
     NT |-> Len(f.t), NC |-> Len(tc.t0), NS |-> NSof(tc.s.tdia_exit),
     out |-> [j \in 1..NSof(tc.s.tdia_exit) |-> None],
     i |-> 0]

\* out[i] = coltrane_integrate(...), without its time series unless they are retained (lines 93-95)
cp_store(C, result) ==
    [C EXCEPT !.out[C.i + 1] = IF C.retain_time_series THEN result
                               ELSE drop_time_series(result, C.ts_always_keep),
              !.i = C.i + 1]

\* pop['level'] and the strategies with any complete integration (lines 101-107):
\* f holds their 0-based numbers in increasing order
cp_levels(C) ==
    LET level == [c \in 1..C.NC |-> [i \in 1..C.NS |-> C.out[i].level[c]]]
        found == {i \in 0..(C.NS - 1) : \E c \in 1..C.NC : RGt(level[c][i + 1], Zero)}
    IN  Put(Put(C, "pop", [level |-> level]), "f", found)

\* np.any(f) of the index tuple f (line 108): some index in it is not 0
np_any(found) == \E i \in found : i # 0

\* the early return (lines 110-113)
cp_no_success(C) ==
    Put(Put(C, "pop", [level |-> C.pop.level,
                       F1 |-> np_zeros(C.NC, C.NS),
                       F2 |-> np_zeros(C.NC, C.NS)]),
        "returns", <<"pop">>)

\* The output of the runs rearranged into pop and popts (lines 118-135)
cp_rearrange(C) ==
    LET first == CHOOSE i \in C.f : \A j \in C.f : i <= j
        fields == DOMAIN C.out[first + 1]
        summaries == {k \in fields : field_ndim(k) = 1}
        series == {k \in fields : /\ field_ndim(k) # 1
                                  /\ \/ k \in C.ts_always_keep
                                     \/ C.retain_time_series /\ k \notin C.ts_always_omit}
        pop == [k \in summaries |-> [c \in 1..C.NC |-> [i \in 1..C.NS |->
                    IF k \in DOMAIN C.out[i] THEN C.out[i][k][c] ELSE NaN]]]
        popts == [k \in series |-> [n \in 1..C.NT |-> [c \in 1..C.NC |-> [i \in 1..C.NS |->
                    IF k \in DOMAIN C.out[i] THEN C.out[i][k][n][c] ELSE NaN]]]]
    IN  Put(Put(C, "pop", pop @@ C.pop), "popts", popts)

\* Two-generation fitness (lines 144-151)
cp_two_generation(C) ==
    IF "dF1" \notin DOMAIN C.popts THEN C
    ELSE LET expected == [c \in 1..C.NC |-> F1expected(C.pop.F1, c)]
             xp == [c \in 1..C.NC |-> C.pop.t0[c][1]]
             F1ex_(n, c) == NanToNum(interp(C.popts.t[n][c][1], xp, expected), Zero)
             F2 == [c \in 1..C.NC |-> [i \in 1..C.NS |->
                        RSum([n \in 1..C.NT |-> RMul(C.popts.dF1[n][c][i], F1ex_(n, c))])]]
         IN  Put(Put(C, "F1expected", expected), "pop", Put(C.pop, "F2", F2))

\* The strategy fields and the return (lines 158-164)
cp_final(C, ss) ==
    LET tiled == [k \in DOMAIN ss |-> [c \in 1..C.NC |-> flatten(ss[k])]]
    IN  Put(Put(C, "pop", tiled @@ C.pop),
            "returns", IF C.retain_time_series THEN <<"pop", "popts">> ELSE <<"pop">>)

\* Inputs of the population driver: explicit strategy lists.  In the first no
\* cohort reaches its egg production date within two years, the second has no
\* diapause, the third crosses two exit dates with two entry dates.
StrategyLists ==
    {[ex |-> <<R(74)>>, en |-> <<R(293)>>, dg |-> <<R(730), R(803)>>, mg |-> Zero],
     [ex |-> <<Zero>>, en |-> <<R(366)>>, dg |-> <<R(73), R(146)>>, mg |-> Zero],
     [ex |-> <<Zero, R(74)>>, en |-> <<R(293), R(366)>>, dg |-> <<R(146)>>, mg |-> Zero],
     [ex |-> <<Zero>>, en |-> <<R(366)>>, dg |-> <<R(146)>>, mg |-> Zero],
     [ex |-> <<Zero>>, en |-> <<R(366)>>, dg |-> <<R(146), R(73), R(146)>>, mg |-> Zero],
     [ex |-> <<Zero>>, en |-> <<R(366)>>, dg |-> <<>>, mg |-> R(3)]}
PopPrey(years) == {[n \in 1..Len(TimeAxis(years)) |-> x] : x \in {Zero, R(3)}} \cup {SeasonalPrey(years)}

PopParams(u0, sl) ==
    [dt_dia |-> R(100), min_genlength_years |-> sl.mg, max_genlength_years |-> PInf]
        @@ IntParams(u0, <<sl.ex, sl.en>>, sl.dg, 0, One)

\* One call coltrane_population(forcing, p, nargout)
InitPop ==
    /\ pc = "pop_start"
    /\ \E P \in PopPrey(IntYears) : forcing = IntForcing(IntYears, P, R(10))
    /\ \E u0 \in DevRates, sl \in StrategyLists : p = PopParams(u0, sl)
    /\ \E nargout \in {1, 2} : cp = [nargout |-> nargout]
    /\ t0 = Unset /\ s = Unset /\ pii = Unset /\ ci = Unset /\ v = Unset
    /\ ind = Unset /\ mapper = Unset

PopStart ==
    /\ pc = "pop_start"
    /\ t0' = timing_combinations(forcing, p).t0
    /\ s' = timing_combinations(forcing, p).s
    /\ cp' = cp_start(forcing, cp.nargout, timing_combinations(forcing, p))
    /\ pc' = "pop_loop"
    /\ UNCHANGED <<mapper, forcing, p, v, ind, pii, ci>>

\* for i in range(NS): the call of the integrator (lines 90-93)
PopCall ==
    /\ pc = "pop_loop"
    /\ cp.i < cp.NS
    /\ pii' = add_strategy_to_params(p, s, cp.i)
    /\ pc' = "prepare"
    /\ UNCHANGED <<mapper, forcing, p, v, t0, s, ind, ci, cp>>

PopStore ==
    /\ pc = "pop_store"
    /\ cp' = cp_store(cp, v)
    /\ pc' = "pop_loop"
    /\ UNCHANGED <<mapper, forcing, p, v, t0, s, ind, pii, ci>>

\* after the loop: np.any(f) is true (lines 101-108)
PopSuccess ==
    /\ pc = "pop_loop"
    /\ cp.i >= cp.NS
    /\ np_any(cp_levels(cp).f)
    /\ cp' = cp_levels(cp)
    /\ pc' = "pop_rearrange"
    /\ UNCHANGED <<mapper, forcing, p, v, t0, s, ind, pii, ci>>

\* after the loop: np.any(f) is false (lines 101-113)
PopNoSuccess ==
    /\ pc = "pop_loop"
    /\ cp.i >= cp.NS
    /\ ~np_any(cp_levels(cp).f)
    /\ cp' = cp_no_success(cp_levels(cp))
    /\ pc' = "pop_done"
    /\ UNCHANGED <<mapper, forcing, p, v, t0, s, ind, pii, ci>>

PopRearrange ==
    /\ pc = "pop_rearrange"
    /\ cp' = cp_rearrange(cp)
    /\ pc' = "pop_fitness"
    /\ UNCHANGED <<mapper, forcing, p, v, t0, s, ind, pii, ci>>

PopTwoGeneration ==
    /\ pc = "pop_fitness"
    /\ cp' = cp_two_generation(cp)
    /\ pc' = "pop_final"
    /\ UNCHANGED <<mapper, forcing, p, v, t0, s, ind, pii, ci>>

PopFinal ==
    /\ pc = "pop_final"
    /\ cp' = cp_final(cp, s)
    /\ pc' = "pop_done"
    /\ UNCHANGED <<mapper, forcing, p, v, t0, s, ind, pii, ci>>

NextPop ==
    \/ PopStart \/ PopCall \/ PopStore \/ PopSuccess \/ PopNoSuccess
    \/ PopRearrange \/ PopTwoGeneration \/ PopFinal
    \/ NextInt

SpecPop == InitPop /\ [][NextPop]_vars

\* the loop of the population driver is over
AfterLoop == pc \in {"pop_rearrange", "pop_fitness", "pop_final", "pop_done"}

\* no strategy achieved level > 0 for any cohort
NoSuccess ==
    \A i \in 1..cp.NS : \A c \in 1..cp.NC : ~RGt(cp.out[i].level[c], Zero)

\* C3: if no strategy achieves level > 0 for any cohort, coltrane_population
\* skips the remaining steps and returns a pop whose level, F1 and F2 are zero
\* at every cohort and strategy.
C3_NoSuccessAllZero ==
    (AfterLoop /\ NoSuccess) =>
        /\ pc = "pop_done"
        /\ cp.returns = <<"pop">>
        /\ \A k \in {"level", "F1", "F2"} :
              /\ DOMAIN cp.pop[k] = 1..cp.NC
              /\ \A c \in 1..cp.NC :
                    /\ DOMAIN cp.pop[k][c] = 1..cp.NS
                    /\ \A i \in 1..cp.NS : cp.pop[k][c][i] = Zero

\* a finished run of several strategies over several cohorts in which no cohort
\* reached level > 0
C3_Witness ==
    /\ pc = "pop_done"
    /\ NoSuccess
    /\ cp.NS >= 2
    /\ cp.NC >= 2

\* the largest F1 that any strategy's integration returned for cohort c
BestF1(c) ==
    CHOOSE x \in {cp.out[i].F1[c] : i \in 1..cp.NS} :
        \A i \in 1..cp.NS : RLe(cp.out[i].F1[c], x)

\* sum over t of strategy i's dF1[t, c] times the curve (t0, fp) interpolated at t
FitnessAgainst(fp, c, i) ==
    RSum([n \in 1..cp.NT |->
            RMul(cp.out[i].dF1[n][c], NanToNum(interp(forcing.t[n], t0, fp), Zero))])

\* the two-generation step has run
TwoGenerationDone == pc \in {"pop_final", "pop_done"} /\ "F1expected" \in DOMAIN cp

\* C4: F2 exists only once every strategy's integration has completed, and it is
\* the sum over t of the strategy's dF1 times the curve of the largest F1 over
\* all strategies per spawn date, interpolated at t.
C4_TwoGenerationFitness ==
    /\ ("pop" \in DOMAIN cp /\ "F2" \in DOMAIN cp.pop) =>
          /\ cp.i = cp.NS
          /\ \A i \in 1..cp.NS : cp.out[i] # None
    /\ TwoGenerationDone =>
          \A c \in 1..cp.NC : \A i \in 1..cp.NS :
              cp.pop.F2[c][i] = FitnessAgainst([k \in 1..cp.NC |-> BestF1(k)], c, i)

\* a run in which some strategy lays eggs at dates where another strategy's F1 is
\* the larger one, so that its F2 is not what its own F1 curve would give
C4_Witness ==
    /\ pc = "pop_done"
    /\ TwoGenerationDone
    /\ \E c \in 1..cp.NC : \E i \in 1..cp.NS :
          /\ RGt(cp.pop.F2[c][i], Zero)
          /\ cp.pop.F2[c][i] # FitnessAgainst([k \in 1..cp.NC |-> cp.out[i].F1[k]], c, i)

\* C11: with m0 = 0, lnN is 0 at every alive cell, from the statement that
\* computes it to the returned result.
C11_ZeroMortalitySurvivorship ==
    (pc \in {"fitness", "cleanup", "done"} /\ cp = Unset /\ ci.p.m0 = Zero) =>
        \A n \in 1..ci.NT : \A c \in 1..ci.NC :
            ci.isalive[n][c] => ci.v.lnN[n][c] = Zero

\* a returned run with m0 = 0 in which a cohort reaches adulthood, lays eggs
\* and is alive both in diapause and out of it
C11_Witness ==
    /\ pc = "done"
    /\ ci.p.m0 = Zero
    /\ \E c \in 1..ci.NC :
          /\ v.level[c] = R(2)
          /\ RGt(v.F1[c], Zero)
          /\ \E n, k \in 1..ci.NT :
                /\ ci.isalive[n][c] /\ v.a[n][c] = One /\ v.lnN[n][c] = Zero
                /\ ci.isalive[k][c] /\ v.a[k][c] = Zero /\ v.lnN[k][c] = Zero

\* the forcing has no prey at any timestep
NoPrey == \A n \in 1..Len(forcing.P) : forcing.P[n] = Zero

\* C12: with P = 0 at every timestep the returned income egg production Einc
\* and capital egg production E - Einc are zero at every cell, and F1 is 0 for
\* every cohort, whatever the strategy.
C12_NoPreyNoEggs ==
    (pc = "done" /\ NoPrey) =>
        /\ \A n \in 1..ci.NT : \A c \in 1..ci.NC :
              /\ v.Einc[n][c] = Zero
              /\ RSub(v.E[n][c], v.Einc[n][c]) = Zero
        /\ \A c \in 1..ci.NC : v.F1[c] = Zero

\* a returned run without prey, with a diapause window in the strategy and
\* several cohorts, in which egg production and fitness came back as zeros
C12_Witness ==
    /\ pc = "done"
    /\ NoPrey
    /\ ci.p.tdia_exit = R(74)
    /\ ci.NC > 1
    /\ \A c \in 1..ci.NC : v.F1[c] = Zero /\ v.E[ci.NT][c] = Zero

\* the run of one cohort spawned at t0 = 0 under the constant forcing, with
\* activity always 1 and D at 1 before egg production starts
ConstantRun ==
    /\ pc = "done"
    /\ forcing = ConstantForcing(IntYears)
    /\ t0 = <<Zero>>
    /\ \A n \in 1..ci.NT : ci.v.a[n][1] = One
    /\ ~ci.toolate[1]

\* C13: under the constant forcing, one cohort spawned at t0 = 0 with activity
\* always 1 and dtegg late enough comes back with level 2, F1 > 0 and a D
\* trajectory that strictly increases up to exactly 1 and stays at 1.
C13_ConstantForcingAdult ==
    ConstantRun =>
        /\ v.level[1] = R(2)
        /\ RGt(v.F1[1], Zero)
        /\ \E k \in 2..ci.NT :
              /\ \A n \in 1..(k - 1) : RLt(v.D[n][1], v.D[n + 1][1])
              /\ \A n \in k..ci.NT : v.D[n][1] = One

\* such a run whose D passes through two values below 1, with a capped reserve
\* fraction and the egg production phase starting after D reached 1
C13_Witness ==
    /\ ConstantRun
    /\ ci.p.maxReserveFrac = Frac(1, 2)
    /\ RLt(v.D[1][1], v.D[2][1]) /\ RLt(v.D[2][1], One)
    /\ \E n \in 2..ci.NT : v.D[n - 1][1] = One /\ ~ci.isineggprod[n - 1][1] /\ ci.isineggprod[n][1]

\* the timing triple of the strategy with 1-based number k
OwnTriple(k) ==
    [tdia_exit |-> flatten(s.tdia_exit)[k], tdia_enter |-> flatten(s.tdia_enter)[k],
     dtegg |-> flatten(s.dtegg)[k]]

\* the driver is inside the evaluation of strategy number cp.i + 1
Evaluating ==
    /\ cp # Unset
    /\ pc \notin {"pop_start", "pop_loop", "pop_rearrange", "pop_fitness", "pop_final", "pop_done"}

\* the evaluation in progress works on the base parameters with its own triple
OwnInputs ==
    Evaluating =>
        /\ DOMAIN pii = DOMAIN p
        /\ \A k \in DOMAIN p :
              pii[k] = IF k \in DOMAIN OwnTriple(cp.i + 1) THEN OwnTriple(cp.i + 1)[k] ELSE p[k]
        /\ pc # "prepare" => (ci.p = pii /\ ci.t0 = t0)

\* evaluations already stored for equal triples are equal
EqualTriplesEqualResults ==
    (cp # Unset /\ "out" \in DOMAIN cp) =>
        \A i \in 1..cp.i : \A j \in 1..cp.i :
            OwnTriple(i) = OwnTriple(j) => cp.out[i] = cp.out[j]

\* C18: evaluating a strategy changes neither the forcing nor the base
\* parameters; it works on the base parameters with its own triple and t0
\* only, and strategies with the same triple get the same result whatever was
\* evaluated before them.
C18_IndependentEvaluations ==
    /\ [](OwnInputs /\ EqualTriplesEqualResults)
    /\ [][forcing' = forcing /\ p' = p]_vars

\* a finished run in which two strategies with the same triple, evaluated
\* before and after a strategy with another triple and another result, both
\* have a cohort with positive fitness
C18_Witness ==
    /\ pc = "pop_done"
    /\ cp.NS = 3
    /\ OwnTriple(1) = OwnTriple(3) /\ OwnTriple(1) # OwnTriple(2)
    /\ cp.out[1] = cp.out[3] /\ cp.out[1] # cp.out[2]
    /\ \E c \in 1..cp.NC : RGt(cp.out[3].F1[c], Zero)

\* timestep n lies outside the range of spawn dates [first t0, last t0]
OutOfRange(n) == RLt(forcing.t[n], t0[1]) \/ RGt(forcing.t[n], t0[Len(t0)])

\* sum over the timesteps t within the range of spawn dates of strategy i's
\* dF1[t, c] times the curve (t0, fp) interpolated at t
FitnessWithinRange(fp, c, i) ==
    RSum([n \in 1..cp.NT |->
            IF OutOfRange(n) THEN Zero
            ELSE RMul(cp.out[i].dF1[n][c], NanToNum(interp(forcing.t[n], t0, fp), Zero))])

\* C14: the expected next-generation fitness is zero at every timestep outside
\* the range of spawn dates, so F2 is the sum over the timesteps within the
\* range only.
C14_OutOfRangeIsZero ==
    TwoGenerationDone =>
        \A c \in 1..cp.NC : \A i \in 1..cp.NS :
            cp.pop.F2[c][i] = FitnessWithinRange([k \in 1..cp.NC |-> BestF1(k)], c, i)

-----------------------------------------------------------------------------
\* The parameter set: coltrane_params(**kwargs).  pii holds the caller's
\* kwargs, p the dictionary that the function builds and returns.

\* set_default: insert val under name unless the name is present and not None
set_default(p0, name, val) ==
    IF name \notin DOMAIN p0 THEN Put(p0, name, val)
    ELSE IF p0[name] = None THEN Put(p0, name, val)
    ELSE p0

\* p = kwargs.copy() (line 48)
params_copy(kwargs) == kwargs

\* LIFE CYCLE defaults (lines 51-61)
params_life_cycle(q0) ==
    LET q1 == set_default(q0, "dt_spawn", R(10))
        q2 == set_default(q1, "tdia_exit", <<>>)
        q3 == set_default(q2, "tdia_enter", <<>>)
        q4 == set_default(q3, "dt_dia", R(20))
        q5 == set_default(q4, "dtegg", <<>>)
        q6 == set_default(q5, "min_genlength_years", Zero)
    IN  set_default(q6, "max_genlength_years", PInf)

\* PREDATION defaults (lines 64-68)
params_predation(q0) ==
    LET q1 == set_default(q0, "preySatVersion", "default")
        q2 == set_default(q1, "KsIA", Frac(1, 5))
        q3 == set_default(q2, "iceToSat", One)
    IN  set_default(q3, "Ks", Frac(6, 5))

\* METABOLISM defaults (lines 71-100)
params_metabolism(q0) ==
    LET q1 == set_default(q0, "r_ea", Frac(13, 1000))
        q2 == set_default(q1, "exp_ea", Frac(31, 50))
        q3 == set_default(q2, "theta", Frac(7, 10))
        q4 == set_default(q3, "u0", Frac(1, 125))
        q5 == set_default(q4, "I0", Frac(37, 100))
        q6 == set_default(q5, "GGE_nominal", Frac(33, 100))
        q7 == set_default(q6, "Q10g", Frac(5, 2))
        q8 == set_default(q7, "Q10d", R(3))
        q9 == set_default(q8, "Df", Frac(1, 10))
        q10 == set_default(q9, "Ds", Frac(7, 20))
        q11 == set_default(q10, "Ddia", Frac(3, 5))
        q12 == set_default(q11, "requireActiveSpawning", 0)
        q13 == set_default(q12, "maxReserveFrac", One)
        q14 == set_default(q13, "r_assim", Frac(67, 100))
        q15 == set_default(q14, "rm", RMul(Frac(4, 5), Frac(17, 100)))
        q16 == set_default(q15, "rb", Frac(1, 4))
    IN  set_default(q16, "rstarv", Frac(1, 10))

\* MORTALITY (lines 103-107)
params_mortality(q0) ==
    LET q1 == set_default(q0, "m0_over_GGE_I0", Frac(67, 100))
        q2 == set_default(q1, "m0", RMul(RMul(q1.m0_over_GGE_I0, q1.GGE_nominal), q1.I0))
    IN  Put(q2, "m0_over_GGE_I0", RDiv(RDiv(q2.m0, q2.GGE_nominal), q2.I0))

\* an option the caller does not pass
Absent == <<"absent">>

\* the options a caller may or may not pass, with the values passed
KwargChoices ==
    [m0 : {Absent, Frac(13, 200)},
     m0_over_GGE_I0 : {Absent, Frac(1, 2)},
     GGE_nominal : {Absent, Frac(1, 2)},
     I0 : {Absent, Frac(2, 5)},
     Ks : {Absent, None, One},
     u0 : {Absent, Frac(1, 146)},
     dt_spawn : {Absent, R(146)},
     rb : {Absent, Frac(1, 2)}]

InitParams ==
    /\ pc = "params_copy"
    /\ \E g \in KwargChoices :
          pii = [k \in {x \in DOMAIN g : g[x] # Absent} |-> g[k]]
    /\ p = Unset
    /\ forcing = Unset /\ t0 = Unset /\ ci = Unset /\ v = Unset
    /\ s = Unset /\ ind = Unset /\ mapper = Unset /\ cp = Unset

ParamsCopy ==
    /\ pc = "params_copy"
    /\ p' = params_copy(pii)
    /\ pc' = "params_life_cycle"
    /\ UNCHANGED <<mapper, forcing, v, t0, s, ind, pii, ci, cp>>

ParamsLifeCycle ==
    /\ pc = "params_life_cycle"
    /\ p' = params_life_cycle(p)
    /\ pc' = "params_predation"
    /\ UNCHANGED <<mapper, forcing, v, t0, s, ind, pii, ci, cp>>

ParamsPredation ==
    /\ pc = "params_predation"
    /\ p' = params_predation(p)
    /\ pc' = "params_metabolism"
    /\ UNCHANGED <<mapper, forcing, v, t0, s, ind, pii, ci, cp>>

ParamsMetabolism ==
    /\ pc = "params_metabolism"
    /\ p' = params_metabolism(p)
    /\ pc' = "params_mortality"
    /\ UNCHANGED <<mapper, forcing, v, t0, s, ind, pii, ci, cp>>

ParamsMortality ==
    /\ pc = "params_mortality"
    /\ p' = params_mortality(p)
    /\ pc' = "params_done"
    /\ UNCHANGED <<mapper, forcing, v, t0, s, ind, pii, ci, cp>>

NextParams ==
    \/ ParamsCopy \/ ParamsLifeCycle \/ ParamsPredation
    \/ ParamsMetabolism \/ ParamsMortality

SpecParams == InitParams /\ [][NextParams]_vars

\* C15: coltrane_params returns every option the caller passed with the value
\* passed (an option passed as None counts as not passed), also when m0 and
\* m0_over_GGE_I0 are passed together.
C15_SuppliedOptionsKept ==
    pc = "params_done" =>
        \A k \in DOMAIN pii : pii[k] # None => p[k] = pii[k]

\* C16: a run whose resolved strategy grid or cohort vector is empty does not
\* return a result.
C16_EmptyGridFails ==
    (pc = "pop_done" /\ "returns" \in DOMAIN cp) => (cp.NS > 0 /\ cp.NC > 0)

-----------------------------------------------------------------------------
\* The prey saturation variants: prey_saturation(v0, p) on 1-D forcing series.
\* A call either returns a mapping or raises; the arrays of the caller's
\* mapping v0 are shared with the shallow copy v = v0.copy(), so an assignment
\* into an array of v changes v0 as well.

\* np.ceil and the truncation of astype(int), on finite numbers
ceil(x) == -((-x[1]) \div x[2])
astype_int(x) == IF x[1] >= 0 THEN x[1] \div x[2] ELSE -((-x[1]) \div x[2])

\* the error python raises for v[k] with k missing
KeyError(k) == <<"KeyError", k>>

\* the forcing fields a call reads, in the order in which it reads them
fields_read(v0, q) ==
    LET components == IF "Ptot" \in DOMAIN v0 THEN <<>> ELSE <<"flagel", "diatom">>
    IN  CASE q.preySatVersion = "biomas_dia21" -> components \o <<"y", "yday", "ice">>
          [] q.preySatVersion = "biomas_dia19a" ->
                IF "Ptot" \in DOMAIN v0 THEN <<>>
                ELSE components \o <<"y", "ice", "yday", "t">>
          [] q.preySatVersion = "biomas_dia19" ->
                IF "Ptot" \in DOMAIN v0 THEN <<>>
                ELSE components \o <<"ice", "yday", "t">>
          [] q.preySatVersion = "satellite_dia18" -> <<"chl", "ice", "yday">>
          [] OTHER -> <<"P">>

\* the first of these fields that v0 lacks, "" if it has them all
first_missing(v0, ks) ==
    IF \A j \in 1..Len(ks) : ks[j] \in DOMAIN v0 THEN ""
    ELSE ks[CHOOSE j \in 1..Len(ks) :
                /\ ks[j] \notin DOMAIN v0
                /\ \A i \in 1..(j - 1) : ks[i] \in DOMAIN v0]

\* v['Ptot'] = v['flagel'] + v['diatom'] where Ptot is not given
with_Ptot(u) ==
    IF "Ptot" \in DOMAIN u THEN u
    ELSE Put(u, "Ptot", [n \in DOMAIN u.flagel |-> RAdd(u.flagel[n], u.diatom[n])])

\* the water-column saturation of a prey series
satWC_of(P, q) == [n \in DOMAIN P |-> MichaelisMenten(P[n], q.Ks)]

\* np.maximum of two series
maximum(a, b) == [n \in DOMAIN a |-> RMax(a[n], b[n])]

\* biomas_dia21 (lines 36-61)
biomas_dia21(v0, q) ==
    LET u == with_Ptot(v0)
        t_init == [n \in DOMAIN u.y |-> RMax(R(45), RSub(RMul(Frac(278, 100), u.y[n]), R(117)))]
        t_max == [n \in DOMAIN u.y |-> RMax(R(45), RSub(RMul(Frac(208, 100), u.y[n]), R(30)))]
        t_end == R(200)
        rising(n) == RGe(u.yday[n], t_init[n]) /\ RLe(u.yday[n], t_max[n])
        falling(n) == RGe(u.yday[n], t_max[n]) /\ RLe(u.yday[n], t_end)
        IAind == [n \in DOMAIN u.y |->
                    IF falling(n)
                    THEN RMul(u.ice[n], RSub(One, RDiv(RSub(u.yday[n], t_max[n]),
                                                       RSub(t_end, t_max[n]))))
                    ELSE IF rising(n)
                    THEN RMul(u.ice[n], RDiv(RSub(u.yday[n], t_init[n]),
                                             RSub(t_max[n], t_init[n])))
                    ELSE Zero]
        satWC == satWC_of(u.Ptot, q)
        satIA == [n \in DOMAIN IAind |-> RDiv(IAind[n], RAdd(q.KsIA, IAind[n]))]
    IN  Put(Put(Put(u, "satWC", satWC), "satIA", satIA), "sat", maximum(satWC, satIA))

\* the ice-algae term of the dia19 variants and of satellite_dia18 before the
\* duration limit: ice above 15 %, yearday after tIA and before the last day
satIA_window(u, tIA, last, q) ==
    [n \in DOMAIN u.ice |->
        RMul(RMul(RMul(BoolR(RGt(u.ice[n], Frac(15, 100))), BoolR(RGt(u.yday[n], tIA[n]))),
                  BoolR(RLt(u.yday[n], last))), q.iceToSat)]

\* one pass of the loop over years (lines 76-80 and 93-97): within year n the
\* term is zeroed once the cumulative sum of its integer parts exceeds dtIA/dt
limit_year(satIA, yr, n, u, q) ==
    LET satn == [k \in DOMAIN satIA |-> IF yr[k] = n THEN satIA[k] ELSE Zero]
        count(k) == RSum([j \in 1..k |-> R(astype_int(satn[j]))])
        allotted == RDiv(q.dtIA, RSub(u.t[2], u.t[1]))
    IN  [k \in DOMAIN satIA |->
            IF yr[k] = n THEN (IF RGt(count(k), allotted) THEN Zero ELSE satn[k])
            ELSE satIA[k]]

RECURSIVE limit_years(_, _, _, _, _, _)
limit_years(satIA, yr, n, last, u, q) ==
    IF n > last THEN satIA
    ELSE limit_years(limit_year(satIA, yr, n, u, q), yr, n + 1, last, u, q)

\* the body shared by biomas_dia19a and biomas_dia19, all of it under
\* "if 'Ptot' not in v" (lines 68-82 and 85-99)
biomas_dia19_body(v0, tIA, q) ==
    IF "Ptot" \in DOMAIN v0 THEN v0
    ELSE LET u == with_Ptot(v0)
             satWC == satWC_of(u.Ptot, q)
             satIA0 == satIA_window(u, tIA, R(200), q)
             yr == [n \in DOMAIN u.t |-> ceil(RDiv(RSub(u.t[n], u.t[1]), R(YearDays)))]
             years == yr[Len(yr)]
             satIA == limit_years(satIA0, yr, 1, years, u, q)
             r == Put(Put(u, "satWC", satWC), "satIA", satIA)
         IN  IF years >= 1 THEN Put(r, "sat", maximum(satWC, satIA)) ELSE r

\* biomas_dia19a (lines 63-82): tIA from the latitude
biomas_dia19a(v0, q) ==
    biomas_dia19_body(v0,
        IF "y" \in DOMAIN v0
        THEN [n \in DOMAIN v0.y |->
                RSub(RMax(R(45), RSub(RMul(Frac(208, 100), v0.y[n]), R(30))),
                     RDiv(q.dtIA, R(3)))]
        ELSE <<>>, q)

\* biomas_dia19 (lines 84-99): tIA from the parameters
biomas_dia19(v0, q) ==
    biomas_dia19_body(v0, [n \in DOMAIN v0.t |-> q.tIA], q)

\* the chlorophyll series after the assignments of lines 103-104
chl_filled(v0, q) ==
    [n \in DOMAIN v0.chl |->
        IF IsNaN(v0.chl[n])
        THEN (IF RGt(v0.ice[n], Frac(15, 100)) THEN q.chlUnderIce
              ELSE q.chlUnderPersistentCloud)
        ELSE v0.chl[n]]

\* satellite_dia18 (lines 101-113)
satellite_dia18(v0, q) ==
    LET u == Put(v0, "chl", chl_filled(v0, q))
        satWC == satWC_of(u.chl, q)
        satIA == satIA_window(u, [n \in DOMAIN u.ice |-> q.tIA], R(270), q)
    IN  Put(Put(Put(u, "satWC", satWC), "satIA", satIA), "sat", maximum(satWC, satIA))

\* the mapping the call returns when it raises nothing
prey_saturation_variant(v0, q) ==
    CASE q.preySatVersion = "biomas_dia21" -> biomas_dia21(v0, q)
      [] q.preySatVersion = "biomas_dia19a" -> biomas_dia19a(v0, q)
      [] q.preySatVersion = "biomas_dia19" -> biomas_dia19(v0, q)
      [] q.preySatVersion = "satellite_dia18" -> satellite_dia18(v0, q)
      [] OTHER -> prey_saturation(v0, q)

\* the caller's mapping after the call: its chl array is the one that lines
\* 103-104 assign into
caller_mapping_after(v0, q) ==
    IF q.preySatVersion = "satellite_dia18" THEN Put(v0, "chl", chl_filled(v0, q)) ELSE v0

\* the outcome of one call: the error raised or the mapping returned, and the
\* caller's mapping afterwards
prey_saturation_call(v0, q) ==
    LET missing == first_missing(v0, fields_read(v0, q))
    IN  IF missing # ""
        THEN [raised |-> KeyError(missing), returned |-> None, v0 |-> v0]
        ELSE [raised |-> None, returned |-> prey_saturation_variant(v0, q),
              v0 |-> caller_mapping_after(v0, q)]

\* Inputs of the variants
VariantYears == 2
Variants == {"default", "biomas_dia21", "biomas_dia19a", "biomas_dia19", "satellite_dia18"}
VariantSteps == 1..Len(TimeAxis(VariantYears))

\* ice cover: none, full, or full over the first year only
IceSeries ==
    {[n \in VariantSteps |-> Zero], [n \in VariantSteps |-> One],
     [n \in VariantSteps |-> IF RLt(TimeAxis(VariantYears)[n], R(YearDays)) THEN One ELSE Zero]}

\* chlorophyll: observed everywhere, or missing at yeardays 74 and 147
ChlSeries ==
    {[n \in VariantSteps |-> One],
     [n \in VariantSteps |->
        IF yearday(TimeAxis(VariantYears)[n]) \in {R(74), R(147)} THEN NaN ELSE One]}

Latitudes == {R(60), R(70)}

\* a forcing with every field that some variant reads
FullForcing(ice, chl, lat) ==
    [t |-> TimeAxis(VariantYears),
     yday |-> [n \in VariantSteps |-> yearday(TimeAxis(VariantYears)[n])],
     y |-> [n \in VariantSteps |-> lat],
     ice |-> ice, chl |-> chl,
     P |-> [n \in VariantSteps |-> R(3)],
     flagel |-> [n \in VariantSteps |-> One],
     diatom |-> [n \in VariantSteps |-> IF n % 2 = 0 THEN R(2) ELSE Zero],
     Ptot |-> [n \in VariantSteps |-> IF n % 2 = 0 THEN R(3) ELSE One]]

\* the mapping d without the fields in ks
Without(d, ks) == [k \in DOMAIN d \ ks |-> d[k]]

VariantParams(variant, iceToSat, dtIA) ==
    [preySatVersion |-> variant, Ks |-> One, KsIA |-> Frac(1, 5), iceToSat |-> iceToSat,
     dtIA |-> dtIA, tIA |-> R(60),
     chlUnderIce |-> Frac(1, 10), chlUnderPersistentCloud |-> Frac(1, 2)]

\* One call prey_saturation(forcing, p): the forcing has Ptot or not, and lacks
\* at most one other field
InitVariant ==
    /\ pc = "prey_saturation_call"
    /\ \E ice \in IceSeries, chl \in ChlSeries, lat \in Latitudes :
       \E total \in SUBSET {"Ptot"} :
       \E lacking \in {{}} \cup {{k} : k \in {"t", "yday", "y", "ice", "chl", "P", "flagel", "diatom"}} :
          forcing = Without(FullForcing(ice, chl, lat), ({"Ptot"} \ total) \cup lacking)
    /\ \E variant \in Variants, iceToSat \in {One, Frac(1, 2)}, dtIA \in {R(73), R(146)} :
          p = VariantParams(variant, iceToSat, dtIA)
    /\ v = Unset /\ cp = Unset
    /\ mapper = Unset /\ t0 = Unset /\ s = Unset
    /\ ind = Unset /\ pii = Unset /\ ci = Unset

\* the call returns: v is the returned mapping
VariantReturns ==
    /\ pc = "prey_saturation_call"
    /\ prey_saturation_call(forcing, p).raised = None
    /\ v' = prey_saturation_call(forcing, p).returned
    /\ forcing' = prey_saturation_call(forcing, p).v0
    /\ cp' = [raised |-> None]
    /\ pc' = "returned"
    /\ UNCHANGED <<mapper, p, t0, s, ind, pii, ci>>

\* the call raises
VariantRaises ==
    /\ pc = "prey_saturation_call"
    /\ prey_saturation_call(forcing, p).raised # None
    /\ cp' = [raised |-> prey_saturation_call(forcing, p).raised]
    /\ forcing' = prey_saturation_call(forcing, p).v0
    /\ pc' = "raised"
    /\ UNCHANGED <<mapper, p, v, t0, s, ind, pii, ci>>

NextVariant == VariantReturns \/ VariantRaises

SpecVariant == InitVariant /\ [][NextVariant]_vars

\* the forcing fields that the variant's formula needs and the forcing lacks;
\* total prey is there when Ptot or both of its components are
RequiredMissing ==
    LET prey == IF "Ptot" \in DOMAIN forcing \/ {"flagel", "diatom"} \subseteq DOMAIN forcing
                THEN {} ELSE {"flagel", "diatom"}
        needs == CASE p.preySatVersion = "biomas_dia21" -> prey \cup {"y", "yday", "ice"}
                   [] p.preySatVersion = "biomas_dia19a" -> prey \cup {"y", "yday", "ice", "t"}
                   [] p.preySatVersion = "biomas_dia19" -> prey \cup {"yday", "ice", "t"}
                   [] p.preySatVersion = "satellite_dia18" -> {"chl", "yday", "ice"}
                   [] OTHER -> {"P"}
    IN  needs \ DOMAIN forcing

\* C17: a call whose forcing lacks a field that the variant needs raises an
\* error naming a lacking field, and does not return.
C17_MissingFieldRaises ==
    (pc \in {"returned", "raised"} /\ RequiredMissing # {}) =>
        /\ pc = "raised"
        /\ \E k \in RequiredMissing : cp.raised = KeyError(k)

\* C19: the call leaves every series of the caller's forcing mapping as it was.
C19_CallerForcingUnchanged == [][forcing' = forcing]_vars

\* C20: whenever some strategy has a cohort with level > 0, the returned
\* F1[c, i] is the F1[c] that the integration of strategy i returned.
C20_SuccessKeepsF1 ==
    (pc = "pop_done" /\ cp.NS > 0 /\ ~NoSuccess) =>
        \A c \in 1..cp.NC : \A i \in 1..cp.NS : cp.pop.F1[c][i] = cp.out[i].F1[c]

-----------------------------------------------------------------------------
\* Claims on the cohort integrator, continued

\* cohort c fails to diapause at timestep n: alive, active at or before n,
\* a = 0 and D < Ddia, on the arrays as they are before the rule is applied
FailureEvent(n, c) ==
    /\ ci.isalive[n][c]
    /\ \E k \in 1..n : ci.isalive[k][c] /\ (ci.v.a[k][c] = One \/ ~ci.isfeeding[k][c])
    /\ ci.v.a[n][c] = Zero
    /\ RLt(ci.v.D[n][c], ci.p.Ddia)

\* the number of failure events of cohort c up to timestep n
FailureCount(n, c) == Cardinality({k \in 1..n : FailureEvent(k, c)})

\* C21: the diapause rule sets D to NaN exactly at the timesteps where the
\* cumulative count of failure events exceeds 1, which are all the timesteps
\* from the second event on; a cohort with at most one event keeps its D and
\* gets level >= 1.
C21_DiapauseFailureRule ==
    [][pc = "diapause" =>
          \A c \in 1..ci.NC :
              /\ \A n \in 1..ci.NT :
                    /\ FailureCount(n, c) > 1 =>
                          /\ IsNaN(ci'.v.D[n][c])
                          /\ \A m \in n..ci.NT : IsNaN(ci'.v.D[m][c])
                    /\ FailureCount(n, c) <= 1 => ci'.v.D[n][c] = ci.v.D[n][c]
              /\ FailureCount(ci.NT, c) <= 1 => RGe(ci'.v.level[c], One)]_vars

\* the rule has just been applied to a run in which one cohort had its second
\* failure event after timesteps with a number for D, and another cohort had
\* exactly one event and kept its D and level 1
C21_Witness ==
    /\ pc = "adulthood"
    /\ \E c \in 1..ci.NC : \E n \in 2..ci.NT :
          /\ ci.hasfailedtodiapause[n][c] /\ ~ci.hasfailedtodiapause[n - 1][c]
          /\ IsNaN(ci.v.D[n][c]) /\ ~IsNaN(ci.v.D[n - 1][c])
    /\ \E c \in 1..ci.NC :
          /\ \A n \in 1..ci.NT : ~ci.hasfailedtodiapause[n][c] /\ ~IsNaN(ci.v.D[n][c])
          /\ \E n \in 1..ci.NT :
                ci.isalive[n][c] /\ ci.v.a[n][c] = Zero /\ RLt(ci.v.D[n][c], ci.p.Ddia)
          /\ ci.v.level[c] = One

\* C22: after each pass of the growth recurrence the reserves written by the
\* pass do not exceed maxReserveFrac times the weight written by it.
C22_ReservesCapped ==
    (pc = "loop" /\ cp = Unset) =>
        \A k \in 2..(ci.n + 1) : \A c \in 1..ci.NC :
            ~RGt(ci.v.R[k][c], RMul(ci.p.maxReserveFrac, ci.v.W[k][c]))

\* the yearday of day x lies inside the diapause window of the run
InWindow(x) ==
    LET yday == RAdd(RSub(x, R(YearDays * (x[1] \div (x[2] * YearDays)))), One)
    IN  RGe(yday, ci.p.tdia_enter) \/ RLe(yday, ci.p.tdia_exit)

\* C23: with requireActiveSpawning set, a cohort whose spawn date or spawn date
\* + dtegg falls inside the diapause window is alive at no timestep: on return
\* all its cells are dead-encoded and its F1 is 0.
C23_ActiveSpawningRequired ==
    (pc = "done" /\ cp = Unset /\ ci.p.requireActiveSpawning # 0) =>
        \A c \in 1..ci.NC :
            (InWindow(t0[c]) \/ InWindow(RAdd(t0[c], ci.p.dtegg))) =>
                /\ \A n \in 1..ci.NT :
                      /\ ~ci.isalive[n][c]
                      /\ IsNaN(v.a[n][c]) /\ IsNaN(v.D[n][c])
                      /\ IsNaN(v.W[n][c]) /\ IsNaN(v.R[n][c])
                      /\ v.lnN[n][c] = NInf /\ v.E[n][c] = Zero
                /\ v.F1[c] = Zero

\* a returned run with requireActiveSpawning set in which one cohort spawned
\* inside the window and is excluded while another cohort lived and laid eggs
C23_Witness ==
    /\ pc = "done" /\ cp = Unset
    /\ ci.p.requireActiveSpawning # 0
    /\ \E c \in 1..ci.NC :
          /\ InWindow(t0[c])
          /\ \A n \in 1..ci.NT : ~ci.isalive[n][c] /\ IsNaN(v.D[n][c])
    /\ \E c \in 1..ci.NC : RGt(v.F1[c], Zero)

-----------------------------------------------------------------------------
\* Claims on the prey saturation variants, continued

IceAlgaeVariants == {"biomas_dia21", "biomas_dia19a", "biomas_dia19", "satellite_dia18"}

\* C24: for an ice-algae-aware variant and a forcing holding every field the
\* variant needs (total prey given as Ptot or as its components), the returned
\* mapping has sat, and sat is the pointwise maximum of satWC and satIA.
C24_SatIsMaximum ==
    (pc = "returned" /\ p.preySatVersion \in IceAlgaeVariants /\ RequiredMissing = {}) =>
        /\ {"sat", "satWC", "satIA"} \subseteq DOMAIN v
        /\ \A n \in 1..Len(v.sat) :
              /\ RGe(v.sat[n], v.satWC[n]) /\ RGe(v.sat[n], v.satIA[n])
              /\ v.sat[n] \in {v.satWC[n], v.satIA[n]}

\* the timesteps of forcing year k (k = 1 is the first 365 days) at which the
\* returned ice-algae term is not zero
NonZeroIceAlgaeSteps(k) ==
    {n \in 1..Len(v.t) :
        /\ RGe(RSub(v.t[n], v.t[1]), R(YearDays * (k - 1)))
        /\ RLt(RSub(v.t[n], v.t[1]), R(YearDays * k))
        /\ v.satIA[n] # Zero}

\* C25: in the duration-limited variants the returned satIA is non-zero on at
\* most dtIA/dt timesteps of each forcing year, for any positive iceToSat.
C25_IceAlgaeDurationLimited ==
    (/\ pc = "returned"
     /\ p.preySatVersion \in {"biomas_dia19", "biomas_dia19a"}
     /\ "satIA" \in DOMAIN v) =>
        \A k \in 1..VariantYears :
            RLe(RMul(R(Cardinality(NonZeroIceAlgaeSteps(k))), RSub(v.t[2], v.t[1])), p.dtIA)

-----------------------------------------------------------------------------
\* Claims on the growth recurrence

\* the net mass flux G*W*dt of cohort c over the pass that starts at row k
NetFlux(k, c) == RMul(RMul(ci.v.G[k][c], ci.v.W[k][c]), ci.dt)

\* C26: after each pass of the growth recurrence, a cohort in egg-production
\* phase with a positive net flux G*W*dt has gained no weight and no reserves
\* and has Einc = flux/dt; a cohort not in egg-production phase has Einc = 0
\* and E = 0 at that timestep.
C26_IncomeEggsReplaceGrowth ==
    (pc = "loop" /\ cp = Unset) =>
        \A k \in 1..ci.n : \A c \in 1..ci.NC :
            /\ (ci.isineggprod[k][c] /\ RGt(NetFlux(k, c), Zero)) =>
                  /\ ~RGt(ci.v.W[k + 1][c], ci.v.W[k][c])
                  /\ ~RGt(ci.v.R[k + 1][c], ci.v.R[k][c])
                  /\ RSub(ci.v.W[k][c], ci.v.W[k + 1][c]) = RSub(ci.v.R[k][c], ci.v.R[k + 1][c])
                  /\ ci.v.Einc[k][c] = RDiv(NetFlux(k, c), ci.dt)
                  /\ RGe(ci.v.E[k][c], ci.v.Einc[k][c])
            /\ ~ci.isineggprod[k][c] =>
                  /\ ci.v.Einc[k][c] = Zero
                  /\ ci.v.E[k][c] = Zero

\* after some pass, one cohort in egg production turned a positive flux into
\* income eggs while another, not yet in egg production, grew on its flux
C26_Witness ==
    /\ pc = "loop" /\ cp = Unset
    /\ \E k \in 1..ci.n : \E c, d \in 1..ci.NC :
          /\ ci.isineggprod[k][c] /\ RGt(NetFlux(k, c), Zero)
          /\ RGt(ci.v.Einc[k][c], Zero)
          /\ ~ci.isineggprod[k][d] /\ RGt(NetFlux(k, d), Zero)
          /\ RGt(ci.v.W[k + 1][d], ci.v.W[k][d])
          /\ ci.v.E[k][d] = Zero

-----------------------------------------------------------------------------
\* Claims on death and egg production

\* cohort c has had R < -rstarv*W at timestep n or before, on the arrays as
\* they leave the growth recurrence
HasStarved(n, c) ==
    \E k \in 1..n : RLt(ci.v.R[k][c], RNeg(RMul(ci.p.rstarv, ci.v.W[k][c])))

\* cohort c is dead at timestep n and from there to the end of the series,
\* with no eggs and no contribution to fitness
DeadFrom(n, c) ==
    \A m \in n..ci.NT :
        ~ci.isalive[m][c] /\ v.E[m][c] = Zero /\ v.dF1[m][c] = Zero

\* C27: from the spawn date on, death is final whatever its cause.  A cohort
\* invalidated by the dtegg check is dead at every timestep, one whose D was
\* invalidated by repeated diapause failure is dead from that timestep, one
\* whose reserves fell below -rstarv*W is dead from that timestep, and in the
\* result any cell at t >= t0 that is not alive is followed only by cells that
\* are not alive and have E = 0 and dF1 = 0.
C27_DeathIsFinal ==
    /\ (pc = "mortality" /\ cp = Unset) =>
          \A c \in 1..ci.NC : \A n \in 1..ci.NT :
              HasStarved(n, c) => \A m \in n..ci.NT : ~ci.isalive[m][c]
    /\ (pc = "done" /\ cp = Unset) =>
          \A c \in 1..ci.NC :
              /\ ci.toolate[c] => DeadFrom(1, c)
              /\ \A n \in 1..ci.NT :
                    /\ ci.hasfailedtodiapause[n][c] => DeadFrom(n, c)
                    /\ (RGe(forcing.t[n], t0[c]) /\ ~ci.isalive[n][c]) => DeadFrom(n, c)

\* a returned run with a cohort that laid eggs after its spawn date and later
\* starved, and with a cohort invalidated by the dtegg check
C27_Witness ==
    /\ pc = "done" /\ cp = Unset
    /\ \E c \in 1..ci.NC : \E n, m \in 1..ci.NT :
          /\ n < m /\ ci.isalive[n][c] /\ RGt(v.E[n][c], Zero)
          /\ ~ci.isalive[m][c] /\ ~ci.hasfailedtodiapause[m][c] /\ ~ci.toolate[c]
    /\ \E c \in 1..ci.NC : ci.toolate[c] /\ RLe(t0[c], forcing.t[ci.NT])

\* C28: in the result E > 0 or dF1 > 0 only at cells where the cohort is alive,
\* is in its egg-production phase (t >= t0 + dtegg) and has D = 1; a cohort
\* with F1 > 0 has level 2.
C28_EggsOnlyAtMaturity ==
    (pc = "done" /\ cp = Unset) =>
        \A c \in 1..ci.NC :
            /\ \A n \in 1..ci.NT :
                  (RGt(v.E[n][c], Zero) \/ RGt(v.dF1[n][c], Zero)) =>
                      /\ ci.isalive[n][c]
                      /\ RGe(forcing.t[n], RAdd(t0[c], ci.p.dtegg))
                      /\ v.D[n][c] = One
            /\ RGt(v.F1[c], Zero) => v.level[c] = R(2)

\* a returned run where a cohort laid eggs at maturity and has F1 > 0, after
\* having lived on a positive flux without laying before its egg-production
\* phase
C28_Witness ==
    /\ pc = "done" /\ cp = Unset
    /\ \E c \in 1..ci.NC :
          /\ RGt(v.F1[c], Zero) /\ v.level[c] = R(2)
          /\ \E n \in 1..ci.NT : RGt(v.dF1[n][c], Zero) /\ v.D[n][c] = One
          /\ \E n \in 1..ci.NT :
                /\ ci.isalive[n][c] /\ RLt(forcing.t[n], RAdd(t0[c], ci.p.dtegg))
                /\ RGt(v.G[n][c], Zero) /\ v.E[n][c] = Zero

-----------------------------------------------------------------------------
(* Two calls of coltrane_population on the same forcing and parameters: the  *)
(* first with nargout = 1, the second with nargout = 2.  The caller keeps    *)
(* the pop of the first call in the field earlier next to the locals of the  *)
(* second.                                                                   *)

InitRetention ==
    /\ InitPop
    /\ cp.nargout = 1

\* the first call has returned; the second call starts (lines 73-88)
PopSecondCall ==
    /\ pc = "pop_done"
    /\ "earlier" \notin DOMAIN cp
    /\ cp' = Put(cp_start(forcing, 2, timing_combinations(forcing, p)), "earlier", cp.pop)
    /\ t0' = timing_combinations(forcing, p).t0
    /\ s' = timing_combinations(forcing, p).s
    /\ pii' = Unset /\ ci' = Unset /\ v' = Unset
    /\ pc' = "pop_loop"
    /\ UNCHANGED <<mapper, forcing, p, ind>>

NextRetention == NextPop \/ PopSecondCall

SpecRetention == InitRetention /\ [][NextRetention]_vars

\* C29: the pop returned with nargout = 2 has the same fields, with the same
\* value at every cohort and strategy, as the pop returned with nargout = 1
\* for the same forcing and parameters.
C29_PopIndependentOfRetention ==
    (pc = "pop_done" /\ "earlier" \in DOMAIN cp) =>
        /\ DOMAIN cp.pop = DOMAIN cp.earlier
        /\ \A k \in DOMAIN cp.pop : cp.pop[k] = cp.earlier[k]

\* the second call has returned the full time series and a pop with summaries,
\* strategy fields and a positive two-generation fitness
C29_Witness ==
    /\ pc = "pop_done" /\ "earlier" \in DOMAIN cp
    /\ cp.returns = <<"pop", "popts">>
    /\ {"W", "D", "dF1"} \subseteq DOMAIN cp.popts
    /\ {"level", "F1", "F2", "Wa_theo", "dtegg"} \subseteq DOMAIN cp.earlier
    /\ \E c \in 1..cp.NC : \E i \in 1..cp.NS : RGt(cp.earlier.F2[c][i], Zero)

-----------------------------------------------------------------------------
\* Claims on development

\* the positions of the call at which D has been computed
Developed ==
    pc \in {"eggtiming", "diapause_flags", "diapause", "adulthood", "energy", "loop",
            "alloc_growth", "alloc_reserves", "income_eggs", "capital_eggs",
            "mortality", "fitness", "cleanup", "done"}

\* C30: D as the development step computes it is 0 before the spawn date and
\* has no NaN; from then on to the return, within each cohort column D is
\* non-decreasing in time over the cells where it is not NaN, never exceeds 1
\* and is 0 at the cells before the spawn date that are not NaN, so that a
\* cohort that has D >= Df, or D = 1, keeps it at every later cell that is not
\* NaN.
C30_DevelopmentMonotone ==
    (Developed /\ cp = Unset) =>
        \A c \in 1..ci.NC : \A n \in 1..ci.NT :
            LET D == ci.v.D
            IN  /\ pc = "eggtiming" => ~IsNaN(D[n][c])
                /\ ~IsNaN(D[n][c]) =>
                      /\ RLt(forcing.t[n], t0[c]) => D[n][c] = Zero
                      /\ RGe(D[n][c], Zero) /\ RLe(D[n][c], One)
                      /\ \A m \in (n + 1)..ci.NT :
                            ~IsNaN(D[m][c]) =>
                                /\ RLe(D[n][c], D[m][c])
                                /\ RGe(D[n][c], ci.p.Df) => RGe(D[m][c], ci.p.Df)
                                /\ D[n][c] = One => D[m][c] = One

\* a returned run with a cohort spawned after the start of the forcing that
\* was feeding before maturity, reached D = 1, and whose D is NaN once it has died
C30_Witness ==
    /\ pc = "done" /\ cp = Unset
    /\ \E c \in 1..ci.NC : \E n, m, k \in 1..ci.NT :
          /\ RGt(t0[c], forcing.t[1])
          /\ n < m /\ m < k
          /\ RGe(v.D[n][c], ci.p.Df) /\ RLt(v.D[n][c], One)
          /\ v.D[m][c] = One
          /\ IsNaN(v.D[k][c])

=============================================================================
